---- MODULE Spec2Model ----
(***************************************************************************)
(* A model of go-restclient: the request builder (restclient/builder.go),  *)
(* the executor doRequest with its response classifier and body codec,     *)
(* the RequestError constructors (restclient/errors.go) and the legacy     *)
(* client-based pipeline (NewRequest, HttpClient.do and the one-liner      *)
(* wrappers).                                                              *)
(*                                                                         *)
(* Conventions.  A Go value that may be nil is a sequence of length at     *)
(* most one: <<>> is nil and <<x>> is the non-nil value x.  Strings whose   *)
(* bytes the code (or the net/url and net/textproto functions it calls)    *)
(* inspects are sequences of byte values; strings that are only stored,    *)
(* compared with "" and handed on are TLA+ strings.                        *)
(***************************************************************************)
EXTENDS Integers, Sequences, FiniteSets, TLC

VARIABLES
    pc,         \* position of the calling program and of the running executor
    hrb,        \* the HttpRequestBuilder value the caller currently holds
    requests,   \* the http.Request objects allocated so far (a *http.Request is an index)
    built,      \* what the last Build / NewRequest returned: descriptor and error
    call,       \* the arguments (and client) of the executor invocation in progress
    resp,       \* the *http.Response of the invocation in progress
    localErr,   \* doRequest's local variable err (written by the deferred close)
    ret,        \* the value the executor call returned
    target,     \* the caller's response object, the one respRef refers to: the
                \* field of its struct and the bytes of its []byte
    obs         \* observations of the run: sends, closes, authenticator calls, snapshots

vars == <<pc, hrb, requests, built, call, resp, localErr, ret, target, obs>>

----------------------------------------------------------------------------
(* Byte strings *)

LowerCase == <<"a","b","c","d","e","f","g","h","i","j","k","l","m",
               "n","o","p","q","r","s","t","u","v","w","x","y","z">>
UpperCase == <<"A","B","C","D","E","F","G","H","I","J","K","L","M",
               "N","O","P","Q","R","S","T","U","V","W","X","Y","Z">>
Digits    == <<"0","1","2","3","4","5","6","7","8","9">>

\* The ASCII code of a character written as a one-character string.
Ord(c) ==
    IF \E i \in 1..26 : LowerCase[i] = c
    THEN 96 + (CHOOSE i \in 1..26 : LowerCase[i] = c)
    ELSE IF \E i \in 1..26 : UpperCase[i] = c
    THEN 64 + (CHOOSE i \in 1..26 : UpperCase[i] = c)
    ELSE IF \E i \in 1..10 : Digits[i] = c
    THEN 47 + (CHOOSE i \in 1..10 : Digits[i] = c)
    ELSE CASE c = " " -> 32 [] c = "#" -> 35 [] c = "%" -> 37 [] c = "&" -> 38
           [] c = "+" -> 43 [] c = "-" -> 45 [] c = "." -> 46 [] c = "/" -> 47
           [] c = ":" -> 58 [] c = "=" -> 61 [] c = "?" -> 63 [] c = "@" -> 64
           [] c = "_" -> 95 [] c = "~" -> 126

\* The byte string of a literal written character by character.
Str(cs) == [i \in 1..Len(cs) |-> Ord(cs[i])]

IsLower(c) == 97 <= c /\ c <= 122
IsUpper(c) == 65 <= c /\ c <= 90
IsDigit(c) == 48 <= c /\ c <= 57
IsAlnum(c) == IsLower(c) \/ IsUpper(c) \/ IsDigit(c)

\* strings.Index for a single byte: the first position of c in s, 0 when absent.
IndexByte(s, c) ==
    IF \E i \in 1..Len(s) : s[i] = c
    THEN CHOOSE i \in 1..Len(s) : s[i] = c /\ \A j \in 1..(i - 1) : s[j] # c
    ELSE 0

\* strings.LastIndex for a single byte.
LastIndexByte(s, c) ==
    IF \E i \in 1..Len(s) : s[i] = c
    THEN CHOOSE i \in 1..Len(s) : s[i] = c /\ \A j \in (i + 1)..Len(s) : s[j] # c
    ELSE 0

HasPrefix(s, p) == Len(s) >= Len(p) /\ SubSeq(s, 1, Len(p)) = p

Drop(s, n) == SubSeq(s, n + 1, Len(s))

\* Bytewise lexicographic order, the order sort.Strings uses.
RECURSIVE StrLess(_, _)
StrLess(a, b) ==
    IF Len(b) = 0 THEN FALSE
    ELSE IF Len(a) = 0 THEN TRUE
    ELSE IF a[1] # b[1] THEN a[1] < b[1]
    ELSE StrLess(Tail(a), Tail(b))

\* The elements of a finite set of byte strings in increasing order.
RECURSIVE SortStrings(_)
SortStrings(S) ==
    IF S = {} THEN <<>>
    ELSE LET m == CHOOSE x \in S : \A y \in S \ {x} : StrLess(x, y)
         IN <<m>> \o SortStrings(S \ {m})

\* All orders in which the elements of a finite set can be enumerated
\* (Go ranges over a map in an unspecified order).
RECURSIVE Orders(_)
Orders(S) ==
    IF S = {} THEN {<<>>}
    ELSE UNION {{<<x>> \o o : o \in Orders(S \ {x})} : x \in S}

----------------------------------------------------------------------------
(* net/url: escaping and parsing, as the builder uses them *)

ishex(c) == IsDigit(c) \/ (97 <= c /\ c <= 102) \/ (65 <= c /\ c <= 70)

unhex(c) ==
    IF IsDigit(c) THEN c - 48
    ELSE IF 97 <= c /\ c <= 102 THEN c - 97 + 10
    ELSE IF 65 <= c /\ c <= 70 THEN c - 65 + 10
    ELSE 0

\* "0123456789ABCDEF"[n]
upperhex(n) == IF n < 10 THEN 48 + n ELSE 55 + n

\* url.shouldEscape for the modes the library reaches from this code.
shouldEscape(c, mode) ==
    IF IsAlnum(c) THEN FALSE
    ELSE IF mode = "encodeHost" /\ c \in {33, 36, 38, 39, 40, 41, 42, 43, 44, 59, 61, 58, 91, 93, 60, 62, 34}
    THEN FALSE
    ELSE IF c \in {45, 95, 46, 126} THEN FALSE
    ELSE IF c \in {36, 38, 43, 44, 47, 58, 59, 61, 63, 64}
    THEN CASE mode = "encodePath" -> c = 63
           [] mode = "encodePathSegment" -> c \in {47, 59, 44, 63}
           [] mode = "encodeQueryComponent" -> TRUE
           [] OTHER -> TRUE
    ELSE TRUE

\* url.escape
RECURSIVE escape(_, _)
escape(s, mode) ==
    IF Len(s) = 0 THEN <<>>
    ELSE LET c == s[1]
             e == IF shouldEscape(c, mode)
                  THEN IF c = 32 /\ mode = "encodeQueryComponent"
                       THEN <<43>>
                       ELSE <<37, upperhex(c \div 16), upperhex(c % 16)>>
                  ELSE <<c>>
         IN e \o escape(Tail(s), mode)

\* PathEscape that returns its argument as it is.
PathEscape_Verbatim(s) == s

PathEscape(s) == escape(s, "encodePathSegment")

QueryEscape(s) == escape(s, "encodeQueryComponent")

\* url.unescape: [ok |-> whether it succeeded, val |-> the decoded string]
RECURSIVE unescape(_, _)
unescape(s, mode) ==
    IF Len(s) = 0 THEN [ok |-> TRUE, val |-> <<>>]
    ELSE IF s[1] = 37
    THEN IF Len(s) < 3 \/ ~ishex(s[2]) \/ ~ishex(s[3])
         THEN [ok |-> FALSE, val |-> <<>>]
         ELSE IF mode = "encodeHost" /\ unhex(s[2]) < 8 /\ SubSeq(s, 1, 3) # <<37, 50, 53>>
         THEN [ok |-> FALSE, val |-> <<>>]
         ELSE LET r == unescape(Drop(s, 3), mode)
              IN [ok |-> r.ok,
                  val |-> IF r.ok THEN <<unhex(s[2]) * 16 + unhex(s[3])>> \o r.val ELSE <<>>]
    ELSE IF mode = "encodeHost" /\ s[1] < 128 /\ shouldEscape(s[1], "encodeHost")
    THEN [ok |-> FALSE, val |-> <<>>]
    ELSE LET r == unescape(Tail(s), mode)
             c == IF s[1] = 43 /\ mode = "encodeQueryComponent" THEN 32 ELSE s[1]
         IN [ok |-> r.ok, val |-> IF r.ok THEN <<c>> \o r.val ELSE <<>>]

\* url.getScheme: [ok, scheme, rest]
RECURSIVE getSchemeFrom(_, _)
getSchemeFrom(rawURL, i) ==
    IF i > Len(rawURL) THEN [ok |-> TRUE, scheme |-> <<>>, rest |-> rawURL]
    ELSE LET c == rawURL[i]
         IN IF IsLower(c) \/ IsUpper(c) THEN getSchemeFrom(rawURL, i + 1)
            ELSE IF IsDigit(c) \/ c \in {43, 45, 46}
            THEN IF i = 1
                 THEN [ok |-> TRUE, scheme |-> <<>>, rest |-> rawURL]
                 ELSE getSchemeFrom(rawURL, i + 1)
            ELSE IF c = 58
            THEN IF i = 1
                 THEN [ok |-> FALSE, scheme |-> <<>>, rest |-> <<>>]
                 ELSE [ok |-> TRUE, scheme |-> SubSeq(rawURL, 1, i - 1), rest |-> Drop(rawURL, i)]
            ELSE [ok |-> TRUE, scheme |-> <<>>, rest |-> rawURL]

getScheme(rawURL) == getSchemeFrom(rawURL, 1)

\* strings.ToLower
ToLower(s) == [i \in 1..Len(s) |-> IF IsUpper(s[i]) THEN s[i] + 32 ELSE s[i]]

\* url.validOptionalPort
validOptionalPort(port) ==
    \/ Len(port) = 0
    \/ /\ port[1] = 58
       /\ \A i \in 2..Len(port) : IsDigit(port[i])

\* url.parseHost for hosts without userinfo and without an IPv6 literal.
parseHost(host) ==
    LET i == LastIndexByte(host, 58)
        portOk == i = 0 \/ validOptionalPort(SubSeq(host, i, Len(host)))
    IN IF ~portOk THEN [ok |-> FALSE, val |-> <<>>]
       ELSE unescape(host, "encodeHost")

FailedURL == [ok |-> FALSE, Scheme |-> <<>>, Host |-> <<>>, Path |-> <<>>,
              RawQuery |-> <<>>, Opaque |-> <<>>]

\* The end of url.parse: the host and the path, once both are decoded.
parsedURL(scheme, host, path, query) ==
    IF ~host.ok \/ ~path.ok THEN FailedURL
    ELSE [ok |-> TRUE, Scheme |-> scheme, Host |-> host.val, Path |-> path.val,
          RawQuery |-> query, Opaque |-> <<>>]

\* url.parse where rest starts with "//" and an authority is expected: the
\* authority ends at the next "/" (slash is its position, 0 when there is none).
parseAuthority(scheme, after, slash, query) ==
    parsedURL(scheme,
              parseHost(IF slash = 0 THEN after ELSE SubSeq(after, 1, slash - 1)),
              unescape(IF slash = 0 THEN <<>> ELSE Drop(after, slash - 1), "encodePath"),
              query)

\* url.parse after the query has been cut off.
parseRest(scheme, rest, query, viaRequest) ==
    IF ~HasPrefix(rest, <<47>>) /\ Len(scheme) > 0
    THEN [ok |-> TRUE, Scheme |-> scheme, Host |-> <<>>, Path |-> <<>>,
          RawQuery |-> query, Opaque |-> rest]
    ELSE IF ~HasPrefix(rest, <<47>>) /\ viaRequest THEN FailedURL
    ELSE IF /\ ~HasPrefix(rest, <<47>>)
            /\ \E i \in 1..Len(rest) : rest[i] = 58 /\ \A j \in 1..(i - 1) : rest[j] # 47
    THEN FailedURL
    ELSE IF /\ (Len(scheme) > 0 \/ (~viaRequest /\ ~HasPrefix(rest, <<47, 47, 47>>)))
            /\ HasPrefix(rest, <<47, 47>>)
    THEN parseAuthority(scheme, Drop(rest, 2), IndexByte(Drop(rest, 2), 47), query)
    ELSE parsedURL(scheme, [ok |-> TRUE, val |-> <<>>], unescape(rest, "encodePath"), query)

\* url.parse after getScheme: the query is what follows the first "?".
parseAfterScheme(gs, q, viaRequest) ==
    IF ~gs.ok THEN FailedURL
    ELSE parseRest(ToLower(gs.scheme),
                   IF q = 0 THEN gs.rest ELSE SubSeq(gs.rest, 1, q - 1),
                   IF q = 0 THEN <<>> ELSE Drop(gs.rest, q),
                   viaRequest)

\* url.parse(rawURL, viaRequest): the URL fields the code reads, and ok = (err == nil).
urlparse(rawURL, viaRequest) ==
    IF Len(rawURL) = 0 /\ viaRequest THEN FailedURL
    ELSE parseAfterScheme(getScheme(rawURL), IndexByte(getScheme(rawURL).rest, 63), viaRequest)

\* url.ParseRequestURI(rawURL) returns no error
ParseRequestURI(rawURL) == urlparse(rawURL, TRUE).ok

\* url.Values.Encode: keys sorted, the values of a key in their order
RECURSIVE EncodeKey(_, _, _)
EncodeKey(k, vs, first) ==
    IF Len(vs) = 0 THEN <<>>
    ELSE (IF first THEN <<>> ELSE <<38>>) \o QueryEscape(k) \o <<61>> \o QueryEscape(vs[1])
         \o EncodeKey(k, Tail(vs), FALSE)

RECURSIVE EncodeKeys(_, _, _)
EncodeKeys(v, keys, first) ==
    IF Len(keys) = 0 THEN <<>>
    ELSE LET e == EncodeKey(keys[1], v[keys[1]], first)
         IN e \o EncodeKeys(v, Tail(keys), first /\ Len(e) = 0)

\* Encode that sorts the keys in descending order.
Encode_Descending(v) ==
    LET keys == SortStrings(DOMAIN v)
    IN EncodeKeys(v, [i \in 1..Len(keys) |-> keys[Len(keys) + 1 - i]], TRUE)

Encode(v) == EncodeKeys(v, SortStrings(DOMAIN v), TRUE)

----------------------------------------------------------------------------
(* net/http: header maps and request construction *)

\* textproto.validHeaderFieldByte
validHeaderFieldByte(c) ==
    IsAlnum(c) \/ c \in {33, 35, 36, 37, 38, 39, 42, 43, 45, 46, 94, 95, 96, 124, 126}

\* The canonicalisation loop of textproto.canonicalMIMEHeaderKey.
RECURSIVE canonicalFrom(_, _)
canonicalFrom(s, upper) ==
    IF Len(s) = 0 THEN <<>>
    ELSE LET c == IF upper /\ IsLower(s[1]) THEN s[1] - 32
                  ELSE IF ~upper /\ IsUpper(s[1]) THEN s[1] + 32
                  ELSE s[1]
         IN <<c>> \o canonicalFrom(Tail(s), c = 45)

\* textproto.CanonicalMIMEHeaderKey: a key with a byte that is no token byte is
\* returned unchanged.
CanonicalMIMEHeaderKey(s) ==
    IF \E i \in 1..Len(s) : ~validHeaderFieldByte(s[i]) THEN s
    ELSE canonicalFrom(s, TRUE)

\* An http.Header is a function from keys to sequences of values.
EmptyHeader == [k \in {} |-> <<>>]

\* Header.Values / the slice stored under a key, looked up as Header.Get does.
HeaderValues(h, key) ==
    LET k == CanonicalMIMEHeaderKey(key)
    IN IF k \in DOMAIN h THEN h[k] ELSE <<>>

\* Header.Get
HeaderGet(h, key) ==
    LET v == HeaderValues(h, key)
    IN IF Len(v) = 0 THEN "" ELSE v[1]

\* Header.Set
HeaderSet(h, key, value) ==
    LET k == CanonicalMIMEHeaderKey(key)
    IN [x \in DOMAIN h \cup {k} |-> IF x = k THEN <<value>> ELSE h[x]]

\* Header.Add
HeaderAdd(h, key, value) ==
    LET k == CanonicalMIMEHeaderKey(key)
    IN [x \in DOMAIN h \cup {k} |->
          IF x = k THEN (IF k \in DOMAIN h THEN h[k] ELSE <<>>) \o <<value>> ELSE h[x]]

\* url.Parse: the fragment is cut off and unescaped, the rest is parsed.
parseWithFragment(u, frag) ==
    IF ~unescape(frag, "encodeFragment").ok THEN FailedURL ELSE urlparse(u, FALSE)

Parse(rawURL) ==
    IF IndexByte(rawURL, 35) = 0 THEN urlparse(rawURL, FALSE)
    ELSE parseWithFragment(SubSeq(rawURL, 1, IndexByte(rawURL, 35) - 1),
                           Drop(rawURL, IndexByte(rawURL, 35)))

\* http.removeEmptyPort
removeEmptyPort(host) ==
    IF Len(host) > 0 /\ host[Len(host)] = 58 THEN SubSeq(host, 1, Len(host) - 1) ELSE host

\* The *http.Request http.NewRequest makes of the parsed URL u.
newRequestOf(method, u, body) ==
    [ok  |-> u.ok,
     req |-> [Method |-> IF method = "" THEN "GET" ELSE method,
              URL    |-> [Scheme |-> u.Scheme, Host |-> removeEmptyPort(u.Host),
                          Path |-> u.Path, RawQuery |-> u.RawQuery, Opaque |-> u.Opaque],
              Header |-> EmptyHeader,
              Body   |-> body,
              Close  |-> FALSE]]

\* http.NewRequest(method, url, body): [ok, req].  An empty method means GET.
httpNewRequest(method, url, body) == newRequestOf(method, Parse(url), body)

----------------------------------------------------------------------------
(* restclient/errors.go *)

StatusRequestTimeout == 408

\* errors.New(message): an error is the chain of its messages, outermost first.
New(message) == <<message>>

\* errors.Wrap(err, message)
Wrap(err, message) == <<message>> \o err

\* NewRequestError that forgets the status code it is given.
NewRequestError_NoStatus(topLevelErr, err, statusCode) ==
    [topLevelErr |-> topLevelErr, err |-> err, statusCode |-> 0,
     isTimeout |-> FALSE, isConnectionErr |-> FALSE,
     isResponseParseErr |-> FALSE, isRequestBuildErr |-> FALSE]

NewRequestError(topLevelErr, err, statusCode) ==
    [topLevelErr |-> topLevelErr, err |-> err, statusCode |-> statusCode,
     isTimeout |-> FALSE, isConnectionErr |-> FALSE,
     isResponseParseErr |-> FALSE, isRequestBuildErr |-> FALSE]

\* NewRequestTimeoutError that leaves the status code at its zero value.
NewRequestTimeoutError_ZeroStatus(topLevelErr, err) ==
    [topLevelErr |-> topLevelErr, err |-> err, statusCode |-> 0,
     isTimeout |-> TRUE, isConnectionErr |-> TRUE,
     isResponseParseErr |-> FALSE, isRequestBuildErr |-> FALSE]

NewRequestTimeoutError(topLevelErr, err) ==
    [topLevelErr |-> topLevelErr, err |-> err, statusCode |-> StatusRequestTimeout,
     isTimeout |-> TRUE, isConnectionErr |-> TRUE,
     isResponseParseErr |-> FALSE, isRequestBuildErr |-> FALSE]

NewRequestConnectionError(topLevelErr, err) ==
    [topLevelErr |-> topLevelErr, err |-> err, statusCode |-> 0,
     isTimeout |-> FALSE, isConnectionErr |-> TRUE,
     isResponseParseErr |-> FALSE, isRequestBuildErr |-> FALSE]

\* NewRequestBuildError that does not set isRequestBuildErr.
NewRequestBuildError_NoFacet(topLevelErr, err) ==
    [topLevelErr |-> topLevelErr, err |-> err, statusCode |-> 0,
     isTimeout |-> FALSE, isConnectionErr |-> FALSE,
     isResponseParseErr |-> FALSE, isRequestBuildErr |-> FALSE]

NewRequestBuildError(topLevelErr, err) ==
    [topLevelErr |-> topLevelErr, err |-> err, statusCode |-> 0,
     isTimeout |-> FALSE, isConnectionErr |-> FALSE,
     isResponseParseErr |-> FALSE, isRequestBuildErr |-> TRUE]

NewRequestResponseParseError(topLevelErr, err) ==
    [topLevelErr |-> topLevelErr, err |-> err, statusCode |-> 0,
     isTimeout |-> FALSE, isConnectionErr |-> FALSE,
     isResponseParseErr |-> TRUE, isRequestBuildErr |-> FALSE]

\* The legacy pipeline returns plain errors: only the chain of messages.
PlainError(err) == [plain |-> err]

IsRequestError(e) == "topLevelErr" \in DOMAIN e

----------------------------------------------------------------------------
(* restclient/builder.go: the builder *)

defaultTimeoutDuration == 60

RequestBuilder ==
    [hr |-> [request |-> <<>>, auth |-> <<>>, respReference |-> <<>>,
             timeout |-> defaultTimeoutDuration, loggingEnabled |-> FALSE],
     ri |-> [scheme |-> <<>>, host |-> <<>>, pathElements |-> <<>>,
             header |-> <<>>, body |-> <<>>, queryParams |-> <<>>]]

\* json.Marshal of the payloads the caller passes: a struct marshals, a channel
\* (or function) value is an unsupported type.
Marshal(v) ==
    IF v = "chan" THEN [ok |-> FALSE, bytes |-> ""]
    ELSE [ok |-> TRUE, bytes |-> "{\"test_id\":123}"]

\* validateRequiredRequestFields that checks the scheme only.
validateRequiredRequestFields_SchemeOnly(ri) ==
    IF ri.scheme = <<>> THEN <<New("Empty request scheme")>> ELSE <<>>

validateRequiredRequestFields(ri) ==
    IF ri.scheme = <<>> THEN <<New("Empty request scheme")>>
    ELSE IF ri.host = <<>> THEN <<New("Empty request host")>>
    ELSE <<>>

\* fmt.Sprintf for formats whose only verbs take the next operand as a string:
\* %s writes it, %% writes a percent sign, any other verb byte c writes Go's
\* bad-verb text %!c(string=operand), and a verb without operand %!c(MISSING).
RECURSIVE Sprintf(_, _)
Sprintf(format, args) ==
    IF Len(format) = 0 THEN <<>>
    ELSE IF format[1] # 37 THEN <<format[1]>> \o Sprintf(Tail(format), args)
    ELSE IF Len(format) = 1 THEN Str(<<"%", "!", "(", "N", "O", "V", "E", "R", "B", ")">>)
    ELSE LET c == format[2] IN
         IF c = 37 THEN <<37>> \o Sprintf(Drop(format, 2), args)
         ELSE IF Len(args) = 0
         THEN <<37, 33, c>> \o Str(<<"(", "M", "I", "S", "S", "I", "N", "G", ")">>)
                 \o Sprintf(Drop(format, 2), args)
         ELSE IF c = 115 THEN args[1] \o Sprintf(Drop(format, 2), Tail(args))
         ELSE <<37, 33, c>> \o Str(<<"(", "s", "t", "r", "i", "n", "g", "=">>) \o args[1]
                 \o Str(<<")">>) \o Sprintf(Drop(format, 2), Tail(args))

RECURSIVE Repeat(_, _)
Repeat(s, n) == IF n = 0 THEN <<>> ELSE s \o Repeat(s, n - 1)

\* buildEndpoint: the escaped scheme and host are written into the format string
\* itself, each path element is an operand of a /%s verb.
buildEndpoint(scheme, host, pathElements) ==
    LET escapedSchemeHost == PathEscape(scheme) \o <<58, 47, 47>> \o PathEscape(host)
        sanitizedUrlElements == [i \in 1..Len(pathElements) |-> PathEscape(pathElements[i])]
        urlFormat == escapedSchemeHost \o Repeat(<<47, 37, 115>>, Len(pathElements))
    IN Sprintf(urlFormat, sanitizedUrlElements)

\* The header loop of Build: the keys of the mapping in the order the range
\* statement yields them; setHeaderIfExists adds every value of a key that is
\* not empty.
\* The loop of setHeaderIfExists with Header.Set in the place of Header.Add.
RECURSIVE addValues_Set(_, _, _)
addValues_Set(h, key, values) ==
    IF Len(values) = 0 THEN h
    ELSE addValues_Set(HeaderSet(h, key, values[1]), key, Tail(values))

RECURSIVE addValues(_, _, _)
addValues(h, key, values) ==
    IF Len(values) = 0 THEN h
    ELSE addValues(HeaderAdd(h, key, values[1]), key, Tail(values))

setHeaderIfExists(h, key, value) ==
    IF key # <<>> /\ Len(value) # 0 THEN addValues(h, key, value) ELSE h

RECURSIVE setCustomHeaders(_, _, _)
setCustomHeaders(h, header, order) ==
    IF Len(order) = 0 THEN h
    ELSE setCustomHeaders(setHeaderIfExists(h, order[1], header[order[1]]), header, Tail(order))

\* A failing return of Build that hands out the descriptor with the error.
BuildFailed_WithDescriptor(reqs, message, cause) ==
    [hr |-> <<RequestBuilder.hr>>,
     err |-> <<NewRequestBuildError("InvalidRequestErr", Wrap(cause, message))>>,
     requests |-> reqs]

\* A failing return of Build: a nil descriptor and a request-build error.
BuildFailed(reqs, message, cause) ==
    [hr |-> <<>>,
     err |-> <<NewRequestBuildError("InvalidRequestErr", Wrap(cause, message))>>,
     requests |-> reqs]

\* Build from "Validate that resulting URL path in request is valid" on: r is
\* the request (Close already set) and id its index; ifFailed holds the request
\* objects as they are when the build fails here.
finishBuild(b, id, r, order, ifFailed) ==
    IF Len(b.ri.pathElements) # 0 /\ ~ParseRequestURI(r.URL.Path)
    THEN BuildFailed(ifFailed, "Invalid Request URI", New("parse error"))
    ELSE [hr  |-> <<[b.hr EXCEPT !.request = <<id>>]>>,
          err |-> <<>>,
          requests |->
              [i \in DOMAIN ifFailed \cup {id} |->
                  IF i # id THEN ifFailed[i]
                  ELSE [r EXCEPT
                          !.URL.RawQuery = IF b.ri.queryParams # <<>>
                                           THEN Encode(b.ri.queryParams[1]) ELSE @,
                          !.Header = IF b.ri.header # <<>>
                                     THEN setCustomHeaders(@, b.ri.header[1], order) ELSE @]]]

\* Build when hrb.hr.request is nil: nr is what http.NewRequest returned.  A
\* request allocated by a build that then fails is unreachable and is not kept.
buildNewRequest(b, reqs, nr, order) ==
    IF ~nr.ok THEN BuildFailed(reqs, "Failed to construct http.Request", New("parse error"))
    ELSE finishBuild(b, Len(reqs) + 1, [nr.req EXCEPT !.Close = TRUE], order, reqs)

\* Build on the caller's request that leaves the body of the request alone.
buildOnRequest_BodyKept(b, reqs, id, order) ==
    finishBuild(b, id, [reqs[id] EXCEPT !.Close = TRUE], order,
                [reqs EXCEPT ![id].Close = TRUE])

\* Build on the request the caller supplied, which it writes to in place.
buildOnRequest(b, reqs, id, order) ==
    finishBuild(b, id,
                [reqs[id] EXCEPT !.Body = IF b.ri.body # <<>> THEN b.ri.body ELSE @,
                                 !.Close = TRUE],
                order,
                [reqs EXCEPT ![id].Body = IF b.ri.body # <<>> THEN b.ri.body ELSE @,
                             ![id].Close = TRUE])

\* HttpRequestBuilder.Build on builder value b with the request objects reqs;
\* order is the order in which the range over the header mapping yields its keys.
\* The result is the returned descriptor, the returned error and the request
\* objects afterwards.
BuildResult(b, reqs, order) ==
    IF b.hr.request # <<>> THEN buildOnRequest(b, reqs, b.hr.request[1], order)
    ELSE IF validateRequiredRequestFields(b.ri) # <<>>
    THEN BuildFailed(reqs, "Invalid request fields", validateRequiredRequestFields(b.ri)[1])
    ELSE buildNewRequest(b, reqs,
                         httpNewRequest("", buildEndpoint(b.ri.scheme, b.ri.host, b.ri.pathElements),
                                        b.ri.body),
                         order)

----------------------------------------------------------------------------
(* The executor: doRequest, and HttpClient.do of the legacy pipeline *)

Accept        == Str(<<"A","c","c","e","p","t">>)
ContentType   == Str(<<"C","o","n","t","e","n","t","-","T","y","p","e">>)
Authorization == Str(<<"A","u","t","h","o","r","i","z","a","t","i","o","n">>)

\* The closure setHeaderIfNotSetAlready, on the header map h.
setHeaderIfNotSetAlready(h, key, value) ==
    IF HeaderGet(h, key) = "" /\ value # "" THEN HeaderSet(h, key, value) ELSE h

\* setUniversalHeaders that replaces the header of the request.
setUniversalHeaders_HeaderReplaced(req, method) ==
    [req EXCEPT !.Header = (Accept :> <<"application/json">>), !.Method = method]

\* "Set universal headers": Accept, the method, and Content-Type for the
\* three verbs that carry a body.
setUniversalHeaders(req, method) ==
    LET h1 == setHeaderIfNotSetAlready(req.Header, Accept, "application/json")
        h2 == IF method \in {"PUT", "PATCH", "POST"}
              THEN setHeaderIfNotSetAlready(h1, ContentType, "application/json")
              ELSE h1
    IN [req EXCEPT !.Header = h2, !.Method = method]

\* Authenticator.Apply: BasicAuthenticator sets the Authorization header and
\* returns nil; an authenticator may also return an error.
Apply(auth, req) ==
    IF auth = "basic"
    THEN [err |-> <<>>,
          req |-> [req EXCEPT !.Header = HeaderSet(req.Header, Authorization, "Basic dXNlcjpwYXNz")]]
    ELSE [err |-> <<New("no credentials")>>, req |-> req]

\* newHttpClient that replaces a zero timeout, too, by the default.
newHttpClient_ZeroDefault(timeout) == IF timeout <= 0 THEN defaultTimeoutDuration ELSE timeout

\* newHttpClient: the Timeout field of the http.Client it returns.
newHttpClient(timeout) == IF timeout < 0 THEN defaultTimeoutDuration ELSE timeout

\* NewHttpClient of the legacy pipeline: the Timeout field of its http.Client.
NewHttpClient(timeout) == IF timeout <= 0 THEN defaultTimeoutDuration ELSE timeout

\* topLevelErrOf with the case of http.StatusBadRequest left out.
topLevelErrOf_NoBadRequest(statusCode) ==
    CASE statusCode = 401 -> "UnauthorizedErr"
      [] statusCode = 403 -> "ForbiddenErr"
      [] statusCode = 404 -> "RecordNotFoundErr"
      [] statusCode = 429 -> "TooManyRequestErr"
      [] statusCode = 422 -> "UnprocessableEntityErr"
      [] statusCode = 500 -> "InternalServerErr"
      [] statusCode = 503 -> "ServiceUnavailableErr"
      [] OTHER -> "UnexpectedResponseCodeErr"

\* The top-level error the switch of prepareResponseError picks.
topLevelErrOf(statusCode) ==
    CASE statusCode = 401 -> "UnauthorizedErr"
      [] statusCode = 403 -> "ForbiddenErr"
      [] statusCode = 404 -> "RecordNotFoundErr"
      [] statusCode = 400 -> "ParseErr"
      [] statusCode = 429 -> "TooManyRequestErr"
      [] statusCode = 422 -> "UnprocessableEntityErr"
      [] statusCode = 500 -> "InternalServerErr"
      [] statusCode = 503 -> "ServiceUnavailableErr"
      [] OTHER -> "UnexpectedResponseCodeErr"

\* getFailedResponseBody: readOk says whether ioutil.ReadAll succeeded.
getFailedResponseBody(response, readOk) ==
    IF ~readOk
    THEN [body |-> "", err |-> <<Wrap(New("read error"), "Failed to convert response body to error")>>]
    ELSE [body |-> response.Body, err |-> <<>>]

\* prepareResponseError that takes only the codes below 300 for successes.
prepareResponseError_From300(response, readOk) ==
    IF response.StatusCode < 300 THEN <<>>
    ELSE <<NewRequestError(topLevelErrOf(response.StatusCode),
                           New(getFailedResponseBody(response, readOk).body),
                           response.StatusCode)>>

\* prepareResponseError that lets status code 400 itself pass as a success.
prepareResponseError_Above400(response, readOk) ==
    IF response.StatusCode <= 400 THEN <<>>
    ELSE <<NewRequestError(topLevelErrOf(response.StatusCode),
                           New(getFailedResponseBody(response, readOk).body),
                           response.StatusCode)>>

\* prepareResponseError: nil below 400, else the classified error.
prepareResponseError(response, readOk) ==
    IF response.StatusCode < 400 THEN <<>>
    ELSE LET b == getFailedResponseBody(response, readOk)
         IN IF b.err # <<>>
            THEN <<NewRequestResponseParseError("InvalidResponseBodyErr",
                                                Wrap(b.err[1], "Failed to read response body"))>>
            ELSE <<NewRequestError(topLevelErrOf(response.StatusCode), New(b.body),
                                   response.StatusCode)>>

\* PrepareResponseError of the legacy pipeline: plain wrapped errors.
PrepareResponseError(response, readOk) ==
    IF response.StatusCode < 400 THEN <<>>
    ELSE LET b == getFailedResponseBody(response, readOk)
         IN IF b.err # <<>>
            THEN <<PlainError(Wrap(b.err[1], "could not read failed response's body"))>>
            ELSE IF topLevelErrOf(response.StatusCode) = "UnexpectedResponseCodeErr"
            THEN <<PlainError(Wrap(New("Unhandled HTTP response code"), b.body))>>
            ELSE <<PlainError(Wrap(New(topLevelErrOf(response.StatusCode)), b.body))>>

\* The response bodies that are JSON objects, with the value they decode to.
JsonObjects == "{\"x\":1}" :> [x |-> 1]

\* json.Unmarshal(data, v) by the kind of v: a pointer to a struct (or an
\* interface holding one) is filled from a JSON object; a struct passed by
\* value is refused; an empty interface accepts any JSON and is not the target.
\* [err, writes |-> whether the caller's object is written, val |-> with what]
jsonUnmarshal(data, kind) ==
    IF data \notin DOMAIN JsonObjects
    THEN [err |-> <<New("invalid character")>>, writes |-> FALSE, val |-> <<>>]
    ELSE IF kind = "struct"
    THEN [err |-> <<New("json: Unmarshal(non-pointer)")>>, writes |-> FALSE, val |-> <<>>]
    ELSE IF kind \in {"ptrStruct", "ifacePtrStruct"}
    THEN [err |-> <<>>, writes |-> TRUE, val |-> <<JsonObjects[data]>>]
    ELSE [err |-> <<>>, writes |-> FALSE, val |-> <<>>]

\* unmarshalReader (UnmarshalReader in the legacy pipeline): a []byte target only
\* rebinds the parameter v; anything else goes through json.Unmarshal.
unmarshalReader(body, v, readOk) ==
    IF ~readOk
    THEN [err |-> <<Wrap(New("read error"), "Failed to read body")>>, writes |-> FALSE, val |-> <<>>]
    ELSE IF v.kind # "bytes"
    THEN LET u == jsonUnmarshal(body, v.kind)
         IN IF u.err # <<>>
            THEN [u EXCEPT !.err = <<Wrap(u.err[1], "Failed unmarshal body")>>]
            ELSE u
    ELSE [err |-> <<>>, writes |-> FALSE, val |-> <<>>]

unmarshalResponseBody(response, v, readOk) == unmarshalReader(response.Body, v, readOk)

----------------------------------------------------------------------------
(* What the caller passes in *)

HTTP == Str(<<"h","t","t","p">>)

Schemes == {<<>>, HTTP, Str(<<"1">>)}

Hosts == {<<>>, Str(<<"h">>)}

PathInputs == {<<>>, <<Str(<<"a">>)>>, <<Str(<<"a","/","b">>), Str(<<"%">>)>>}

\* Query parameters: nil; one key with two values; an empty mapping; two keys.
QueryInputs ==
    {<<>>,
     <<Str(<<"q">>) :> <<Str(<<"1">>), Str(<<"a"," ","b">>)>>>>,
     <<EmptyHeader>>,
     <<(Str(<<"b">>) :> <<Str(<<"2">>)>>) @@ (Str(<<"a">>) :> <<Str(<<"3">>), Str(<<"1">>)>>)>>}

XA == Str(<<"X","-","A">>)
xa == Str(<<"x","-","a">>)
XB == Str(<<"X","-","B">>)

\* Header mappings: nil; two keys with one canonical form; a key with two
\* values beside an empty key and an empty value list; caller-set Accept and
\* Content-Type.
HeaderInputs ==
    {<<>>,
     <<(xa :> <<"1">>) @@ (XA :> <<"2">>)>>,
     <<(XB :> <<"1", "2">>) @@ (<<>> :> <<"3">>) @@ (XA :> <<>>)>>,
     <<(Accept :> <<"text/plain">>) @@ (ContentType :> <<"text/xml">>)>>}

BodyInputs == {<<>>, <<"stream">>}

BodyJsonInputs == {<<>>, <<"trb">>, <<"chan">>}

AuthInputs == {<<>>, <<"basic">>, <<"failing">>}

RespRefInputs == {<<>>, <<[kind |-> "ptrStruct"]>>, <<[kind |-> "struct"]>>, <<[kind |-> "bytes"]>>}

TimeoutInputs == {-1, 0, 5}

\* Requests the caller prepared with http.NewRequest and a header of its own.
\* Raw URLs: scheme, host, path and query; scheme and host only; a URL that
\* url.Parse refuses.
RawUrlInputs ==
    {Str(<<"h","t","t","p",":","/","/","h","/","a","?","x","=","1">>),
     Str(<<"h","t","t","p",":","/","/","h">>),
     Str(<<"%","z","z">>)}

PreparedRequest(url, header) ==
    [httpNewRequest("", url, <<>>).req EXCEPT !.Header = header]

PreparedRequests ==
    {PreparedRequest(Str(<<"h","t","t","p",":","/","/","h","/","p","?","x","=","1">>),
                     XA :> <<"0">>),
     PreparedRequest(Str(<<"h","t","t","p",":","/","/","h">>), EmptyHeader)}

StatusCodes == {100, 200, 301, 400, 401, 403, 404, 418, 422, 429, 500, 503}

\* What the network call can yield: a transport failure (a *url.Error that
\* reports a timeout or not) or a response.  Every status code comes with a
\* JSON body, two of them with a plain text body as well.
Outcomes ==
    {[kind |-> "timeout"], [kind |-> "error"]}
    \cup {[kind |-> "response", StatusCode |-> c, Body |-> "{\"x\":1}"] : c \in StatusCodes}
    \cup {[kind |-> "response", StatusCode |-> c, Body |-> "bad creds"] : c \in {200, 401}}

ZeroTarget == [x |-> 0, bytes |-> ""]

NoCall == [variant |-> "", req |-> 0, method |-> "", auth |-> <<>>, respRef |-> <<>>,
           loggingEnabled |-> FALSE, timeout |-> 0, hcTimeout |-> 0,
           clientTimeout |-> <<>>, ctxTimeout |-> <<>>]

Init ==
    /\ pc = "configure"
    /\ hrb = RequestBuilder
    /\ requests = <<>>
    /\ built = [hr |-> <<>>, err |-> <<>>]
    /\ call = NoCall
    /\ resp = <<>>
    /\ localErr = <<>>
    /\ ret = <<>>
    /\ target = ZeroTarget
    /\ obs = [sends |-> 0, closes |-> 0, authCalls |-> 0, clients |-> 0, log |-> <<>>,
              headerBefore |-> EmptyHeader, outcome |-> "", network |-> "",
              errorBodyRead |-> "", decoded |-> FALSE, requestBefore |-> <<>>,
              fields |-> [scheme |-> <<>>, host |-> <<>>, pathElements |-> <<>>,
                          queryParams |-> <<>>],
              raw |-> <<>>, headerAtEntry |-> EmptyHeader,
              marshalFailed |-> FALSE, unparsed |-> FALSE, parked |-> <<>>,
              earlier |-> <<>>,
              builtAt |-> <<>>, again |-> FALSE]

----------------------------------------------------------------------------
(* The builder's configuration methods *)

Scheme(scheme) ==
    /\ pc = "configure"
    /\ hrb' = [hrb EXCEPT !.ri.scheme = scheme]
    /\ obs' = [obs EXCEPT !.fields.scheme = scheme]
    /\ UNCHANGED <<pc, requests, built, call, resp, localErr, ret, target>>

Host(host) ==
    /\ pc = "configure"
    /\ hrb' = [hrb EXCEPT !.ri.host = host]
    /\ obs' = [obs EXCEPT !.fields.host = host]
    /\ UNCHANGED <<pc, requests, built, call, resp, localErr, ret, target>>

PathElements(pe) ==
    /\ pc = "configure"
    /\ hrb' = [hrb EXCEPT !.ri.pathElements = pe]
    /\ obs' = [obs EXCEPT !.fields.pathElements = pe]
    /\ UNCHANGED <<pc, requests, built, call, resp, localErr, ret, target>>

QueryParams(qp) ==
    /\ pc = "configure"
    /\ hrb' = [hrb EXCEPT !.ri.queryParams = qp]
    /\ obs' = [obs EXCEPT !.fields.queryParams = qp]
    /\ UNCHANGED <<pc, requests, built, call, resp, localErr, ret, target>>

\* strings.Split(s, sep) for a separator of one byte.
RECURSIVE Split(_, _)
Split(s, sep) ==
    IF IndexByte(s, sep) = 0 THEN <<s>>
    ELSE <<SubSeq(s, 1, IndexByte(s, sep) - 1)>> \o Split(Drop(s, IndexByte(s, sep)), sep)

\* The url.Values m with value added under key.
AddValue(m, key, value) ==
    [k \in DOMAIN m \cup {key} |->
        IF k = key THEN (IF key \in DOMAIN m THEN m[key] ELSE <<>>) \o <<value>> ELSE m[k]]

\* One step of url.parseQuery: the pair "key=value", unescaped; a pair that is
\* empty or cannot be unescaped is skipped.
addPair(m, key, value) ==
    IF ~key.ok \/ ~value.ok THEN m ELSE AddValue(m, key.val, value.val)

\* url.parseQuery over the pairs that "&" separates.
RECURSIVE parseQuery(_, _)
parseQuery(m, pairs) ==
    IF Len(pairs) = 0 THEN m
    ELSE IF Len(pairs[1]) = 0 THEN parseQuery(m, Tail(pairs))
    ELSE parseQuery(
            addPair(m,
                    unescape(Split(pairs[1], 61)[1], "encodeQueryComponent"),
                    unescape(IF IndexByte(pairs[1], 61) = 0 THEN <<>>
                             ELSE Drop(pairs[1], IndexByte(pairs[1], 61)),
                             "encodeQueryComponent")),
            Tail(pairs))

\* URL.Query(): the parsed RawQuery, never nil.
Query(rawQuery) == parseQuery(EmptyHeader, Split(rawQuery, 38))

\* rawUrlFields that keeps the empty element in front of the first "/".
rawUrlFields_LeadingKept(parsedUrl) ==
    [scheme |-> parsedUrl.Scheme,
     host |-> parsedUrl.Host,
     pathElements |-> Split(parsedUrl.Path, 47),
     queryParams |-> <<Query(parsedUrl.RawQuery)>>]

\* The fields RawUrl writes from the parsed URL.
rawUrlFields(parsedUrl) ==
    [scheme |-> parsedUrl.Scheme,
     host |-> parsedUrl.Host,
     pathElements |-> Tail(Split(parsedUrl.Path, 47)),
     queryParams |-> <<Query(parsedUrl.RawQuery)>>]

\* RawUrl that empties the fields a raw URL fills when the URL does not parse.
rawUrlResult_EmptiedOnFailure(ri, parsedUrl) ==
    IF ~parsedUrl.ok
    THEN [ri EXCEPT !.scheme = <<>>, !.host = <<>>, !.pathElements = <<>>,
                    !.queryParams = <<>>]
    ELSE [ri EXCEPT !.scheme = rawUrlFields(parsedUrl).scheme,
                    !.host = rawUrlFields(parsedUrl).host,
                    !.pathElements = rawUrlFields(parsedUrl).pathElements,
                    !.queryParams = rawUrlFields(parsedUrl).queryParams]

\* What RawUrl does to the fields ri once url.Parse returned parsedUrl.
rawUrlResult(ri, parsedUrl) ==
    IF ~parsedUrl.ok THEN ri
    ELSE [ri EXCEPT !.scheme = rawUrlFields(parsedUrl).scheme,
                    !.host = rawUrlFields(parsedUrl).host,
                    !.pathElements = rawUrlFields(parsedUrl).pathElements,
                    !.queryParams = rawUrlFields(parsedUrl).queryParams]

\* obs.unparsed records that a RawUrl call was given a string url.Parse
\* refused.
RawUrl(rawUrl) ==
    /\ pc = "configure"
    /\ \E parsedUrl \in {Parse(rawUrl)} :
          /\ hrb' = [hrb EXCEPT !.ri = rawUrlResult(@, parsedUrl)]
          /\ obs' = [obs EXCEPT !.raw = IF parsedUrl.ok THEN <<rawUrlFields(parsedUrl)>> ELSE @,
                                !.unparsed = @ \/ ~parsedUrl.ok]
    /\ UNCHANGED <<pc, requests, built, call, resp, localErr, ret, target>>

Header(header) ==
    /\ pc = "configure"
    /\ hrb' = [hrb EXCEPT !.ri.header = header]
    /\ UNCHANGED <<pc, requests, built, call, resp, localErr, ret, target, obs>>

\* obs.marshalFailed records that the last call that set or was to set the
\* body was a BodyJson whose payload json.Marshal refused.
Body(body) ==
    /\ pc = "configure"
    /\ hrb' = [hrb EXCEPT !.ri.body = body]
    /\ obs' = [obs EXCEPT !.marshalFailed = FALSE]
    /\ UNCHANGED <<pc, requests, built, call, resp, localErr, ret, target>>

BodyJson(bodyJson) ==
    /\ pc = "configure"
    /\ hrb' = IF bodyJson # <<>> /\ Marshal(bodyJson[1]).ok
              THEN [hrb EXCEPT !.ri.body = <<Marshal(bodyJson[1]).bytes>>]
              ELSE hrb
    /\ obs' = IF bodyJson = <<>> THEN obs
              ELSE [obs EXCEPT !.marshalFailed = ~Marshal(bodyJson[1]).ok]
    /\ UNCHANGED <<pc, requests, built, call, resp, localErr, ret, target>>

Auth(auth) ==
    /\ pc = "configure"
    /\ hrb' = [hrb EXCEPT !.hr.auth = auth]
    /\ UNCHANGED <<pc, requests, built, call, resp, localErr, ret, target, obs>>

ResponseReference(respRef) ==
    /\ pc = "configure"
    /\ hrb' = [hrb EXCEPT !.hr.respReference = respRef]
    /\ UNCHANGED <<pc, requests, built, call, resp, localErr, ret, target, obs>>

\* Request(req) with a request the caller has just prepared; the caller
\* prepares one request at most.
Request(req) ==
    /\ pc = "configure"
    /\ requests = <<>>
    /\ requests' = <<req>>
    /\ hrb' = [hrb EXCEPT !.hr.request = <<1>>]
    /\ UNCHANGED <<pc, built, call, resp, localErr, ret, target, obs>>

Timeout(timeout) ==
    /\ pc = "configure"
    /\ hrb' = [hrb EXCEPT !.hr.timeout = timeout]
    /\ UNCHANGED <<pc, requests, built, call, resp, localErr, ret, target, obs>>

LoggingEnabled(enabled) ==
    /\ pc = "configure"
    /\ hrb' = [hrb EXCEPT !.hr.loggingEnabled = enabled]
    /\ UNCHANGED <<pc, requests, built, call, resp, localErr, ret, target, obs>>

\* The keys of the builder's header mapping (none when it is nil).
HeaderKeys(b) == IF b.ri.header = <<>> THEN {} ELSE DOMAIN b.ri.header[1]

\* The header of the request Build works on, before Build touches it.
HeaderOf(b, reqs) == IF b.hr.request = <<>> THEN EmptyHeader ELSE reqs[b.hr.request[1]].Header

\* The request Build works on as it is before Build touches it, nil when
\* Build allocates one.
RequestOf(b, reqs) == IF b.hr.request = <<>> THEN <<>> ELSE <<reqs[b.hr.request[1]]>>

Build ==
    /\ pc = "configure"
    /\ \E order \in Orders(HeaderKeys(hrb)) :
          \E r \in {BuildResult(hrb, requests, order)} :
             /\ built' = [hr |-> r.hr, err |-> r.err]
             /\ requests' = r.requests
             /\ obs' = [obs EXCEPT !.headerBefore = HeaderOf(hrb, requests),
                                   !.requestBefore = RequestOf(hrb, requests),
                                   !.builtAt = IF r.err # <<>> THEN <<>>
                                               ELSE <<r.requests[r.hr[1].request[1]]>>]
    /\ pc' = "built"
    /\ UNCHANGED <<hrb, call, resp, localErr, ret, target>>

\* The caller goes on with the builder value it holds after a Build: Build has
\* a value receiver, so the builder is as it was, and the descriptor the Build
\* returned stays with the caller.  obs.earlier keeps that descriptor, the
\* request it refers to as it was returned, and the caller's request as it was
\* before the Build.
Reuse ==
    /\ pc = "built"
    /\ obs.earlier = <<>>
    /\ obs' = [obs EXCEPT !.earlier = <<[hr |-> built.hr, err |-> built.err,
                                        request |-> RequestOf(hrb, requests),
                                        before |-> obs.requestBefore]>>]
    /\ pc' = "configure"
    /\ UNCHANGED <<hrb, requests, built, call, resp, localErr, ret, target>>

\* What a thread of control of the caller holds: its place, the descriptor it
\* works on, the locals of its call, its response target and what has been
\* observed of it.
Context ==
    [pc |-> pc, built |-> built, call |-> call, resp |-> resp, localErr |-> localErr,
     ret |-> ret, target |-> target, obs |-> [obs EXCEPT !.parked = <<>>]]

\* Spawn that hands the second thread the descriptor the first one works on.
Spawn_SameDescriptor ==
    /\ pc = "built"
    /\ obs.parked = <<>>
    /\ obs.earlier # <<>>
    /\ hrb.hr.request = <<>>
    /\ built.hr # <<>>
    /\ obs.earlier[1].hr # <<>>
    /\ obs' = [obs EXCEPT !.parked = <<[Context EXCEPT !.target = ZeroTarget]>>]
    /\ UNCHANGED <<pc, hrb, requests, built, call, resp, localErr, ret, target>>

\* The caller has built two descriptors from a builder without a request of
\* its own and starts a second thread of control that is to call a verb on the
\* earlier one, with a response target of its own; the thread that goes on
\* here calls a verb on the later one.  obs.parked is the thread that is not
\* running.
Spawn ==
    /\ pc = "built"
    /\ obs.parked = <<>>
    /\ obs.earlier # <<>>
    /\ hrb.hr.request = <<>>
    /\ built.hr # <<>>
    /\ obs.earlier[1].hr # <<>>
    /\ obs' = [obs EXCEPT !.parked =
                  <<[Context EXCEPT
                       !.built = [hr |-> obs.earlier[1].hr, err |-> <<>>],
                       !.target = ZeroTarget,
                       !.obs.builtAt = <<requests[obs.earlier[1].hr[1].request[1]]>>]>>]
    /\ UNCHANGED <<pc, hrb, requests, built, call, resp, localErr, ret, target>>

\* The scheduler switches between the two threads: the running one is parked
\* where it is and the parked one goes on where it was.  The requests are in
\* the memory both threads see.
Yield ==
    /\ obs.parked # <<>>
    /\ pc' = obs.parked[1].pc
    /\ built' = obs.parked[1].built
    /\ call' = obs.parked[1].call
    /\ resp' = obs.parked[1].resp
    /\ localErr' = obs.parked[1].localErr
    /\ ret' = obs.parked[1].ret
    /\ target' = obs.parked[1].target
    /\ obs' = [obs.parked[1].obs EXCEPT !.parked = <<Context>>]
    /\ UNCHANGED <<hrb, requests>>

----------------------------------------------------------------------------
(* HttpRequest.Get/Post/Put/Patch/Delete and doRequest *)

\* enterDoRequest that goes to the authenticator before the header step.
enterDoRequest_AuthFirst(method) ==
    /\ pc = "built"
    /\ built.hr # <<>>
    /\ call' = [NoCall EXCEPT !.variant = "doRequest",
                              !.req = built.hr[1].request[1],
                              !.method = method,
                              !.auth = built.hr[1].auth,
                              !.respRef = built.hr[1].respReference,
                              !.loggingEnabled = built.hr[1].loggingEnabled,
                              !.timeout = built.hr[1].timeout]
    /\ pc' = "auth"
    /\ UNCHANGED <<hrb, requests, built, resp, localErr, ret, target, obs>>

\* hr.Get() and its siblings: doRequest is entered with the descriptor's fields.
\* On the nil descriptor of a failed build the method call dereferences nil and
\* nothing is executed.
enterDoRequest(method) ==
    /\ pc = "built"
    /\ built.hr # <<>>
    /\ call' = [NoCall EXCEPT !.variant = "doRequest",
                              !.req = built.hr[1].request[1],
                              !.method = method,
                              !.auth = built.hr[1].auth,
                              !.respRef = built.hr[1].respReference,
                              !.loggingEnabled = built.hr[1].loggingEnabled,
                              !.timeout = built.hr[1].timeout]
    /\ pc' = "headers"
    /\ UNCHANGED <<hrb, requests, built, resp, localErr, ret, target, obs>>

Get == enterDoRequest("GET")

Post == enterDoRequest("POST")

Put == enterDoRequest("PUT")

Patch == enterDoRequest("PATCH")

Delete == enterDoRequest("DELETE")

\* doRequest / HttpClient.do: the universal headers and the method.
UniversalHeaders ==
    /\ pc = "headers"
    /\ requests' = [requests EXCEPT ![call.req] = setUniversalHeaders(@, call.method)]
    /\ obs' = [obs EXCEPT !.headerAtEntry = requests[call.req].Header]
    /\ pc' = "auth"
    /\ UNCHANGED <<hrb, built, call, resp, localErr, ret, target>>

\* authFailure that does not wrap the authenticator's error.
authFailure_Unwrapped(variant, err) ==
    IF variant = "doRequest"
    THEN NewRequestBuildError("InvalidRequestErr",
                              New("cannot apply authentication information to request"))
    ELSE PlainError(New("cannot apply authentication information to request"))

\* The error returned when auth.Apply fails.
authFailure(variant, err) ==
    IF variant = "doRequest"
    THEN NewRequestBuildError("InvalidRequestErr",
                              Wrap(err, "cannot apply authentication information to request"))
    ELSE PlainError(Wrap(err, "cannot apply authentication information to request"))

\* doRequest / HttpClient.do: the authenticator, when there is one.
Authenticating ==
    /\ pc = "auth"
    /\ IF call.auth = <<>>
       THEN /\ pc' = "send"
            /\ UNCHANGED <<requests, ret, obs>>
       ELSE LET a == Apply(call.auth[1], requests[call.req])
            IN /\ requests' = [requests EXCEPT ![call.req] = a.req]
               /\ IF a.err # <<>>
                  THEN /\ ret' = <<authFailure(call.variant, a.err[1])>>
                       /\ pc' = "returned"
                       /\ obs' = [obs EXCEPT !.authCalls = @ + 1, !.outcome = "AuthFailed"]
                  ELSE /\ pc' = "send"
                       /\ obs' = [obs EXCEPT !.authCalls = @ + 1]
                       /\ UNCHANGED ret
    /\ UNCHANGED <<hrb, built, call, resp, localErr, target>>

\* logRequestIfEnabled: the lines written to the loggers.
logRequestIfEnabled(log, enabled, statusCode) ==
    IF ~enabled THEN log
    ELSE IF statusCode = 0 THEN Append(log, <<"error", statusCode>>)
    ELSE Append(log, <<"info", statusCode>>)

\* transportFailure with the test of urlError.Timeout() inverted.
transportFailure_Inverted(variant, timedOut) ==
    IF variant # "doRequest" THEN PlainError(Wrap(New("url.Error"), "Connection Error"))
    ELSE IF ~timedOut
    THEN NewRequestTimeoutError("HttpClientErr",
                                Wrap(New("url.Error"), "Connection Error, Request Timed out"))
    ELSE NewRequestConnectionError("HttpClientErr", Wrap(New("url.Error"), "Connection Error"))

\* The error returned when the network call yields no response.
transportFailure(variant, timedOut) ==
    IF variant # "doRequest" THEN PlainError(Wrap(New("url.Error"), "Connection Error"))
    ELSE IF timedOut
    THEN NewRequestTimeoutError("HttpClientErr",
                                Wrap(New("url.Error"), "Connection Error, Request Timed out"))
    ELSE NewRequestConnectionError("HttpClientErr", Wrap(New("url.Error"), "Connection Error"))

\* requestContextTimeout with the comparison of the two timeouts reversed.
requestContextTimeout_WhenLarger(timeout, hcTimeout) ==
    IF timeout > 0 /\ (hcTimeout <= 0 \/ timeout > hcTimeout) THEN <<timeout>> ELSE <<>>

\* The deadline HttpClient.do derives for this call, nil when it derives none.
requestContextTimeout(timeout, hcTimeout) ==
    IF timeout > 0 /\ (hcTimeout <= 0 \/ timeout < hcTimeout) THEN <<timeout>> ELSE <<>>

\* doRequest / HttpClient.do: the client, the network call and its logging.
\* o is what the network call yields; a request whose URL has no host is
\* refused by the transport.
Sending(o) ==
    /\ pc = "send"
    /\ requests[call.req].URL.Host = <<>> => o.kind = "error"
    /\ call' = IF call.variant = "doRequest"
               THEN [call EXCEPT !.clientTimeout = <<newHttpClient(call.timeout)>>]
               ELSE [call EXCEPT !.ctxTimeout = requestContextTimeout(call.timeout, call.hcTimeout)]
    /\ IF o.kind = "response"
       THEN /\ resp' = <<[StatusCode |-> o.StatusCode, Body |-> o.Body]>>
            /\ localErr' = <<>>
            /\ obs' = [obs EXCEPT !.sends = @ + 1,
                                  !.clients = IF call.variant = "doRequest" THEN @ + 1 ELSE @,
                                  !.log = logRequestIfEnabled(@, call.loggingEnabled, o.StatusCode),
                                  !.network = o.kind]
            /\ pc' = "received"
            /\ UNCHANGED ret
       ELSE /\ resp' = <<>>
            /\ localErr' = <<New("url.Error")>>
            /\ ret' = <<transportFailure(call.variant, o.kind = "timeout")>>
            /\ obs' = [obs EXCEPT !.sends = @ + 1,
                                  !.clients = IF call.variant = "doRequest" THEN @ + 1 ELSE @,
                                  !.log = logRequestIfEnabled(@, call.loggingEnabled, 0),
                                  !.outcome = "TransportFailed",
                                  !.network = o.kind]
            /\ pc' = "returned"
    /\ UNCHANGED <<hrb, requests, built, target>>

\* The classification of the received response; readOk says whether reading
\* the body of a failed response succeeds.
classify(variant, response, readOk) ==
    IF variant = "doRequest" THEN prepareResponseError(response, readOk)
    ELSE PrepareResponseError(response, readOk)

\* doRequest / HttpClient.do: "Handle Response Status Code".  A classification
\* error is the return value; the deferred close is still to run.
Classifying ==
    /\ pc = "received"
    /\ \E readOk \in BOOLEAN :
          LET reqErr == classify(call.variant, resp[1], readOk)
          IN IF reqErr # <<>>
             THEN /\ ret' = reqErr
                  /\ localErr' = IF call.variant = "doRequest" THEN localErr ELSE <<reqErr[1].plain>>
                  /\ obs' = [obs EXCEPT !.outcome = "StatusError",
                                        !.errorBodyRead = IF readOk THEN "ok" ELSE "failed"]
                  /\ pc' = "close"
             ELSE IF call.respRef # <<>>
             THEN /\ pc' = "decode"
                  /\ UNCHANGED <<ret, localErr, obs>>
             ELSE /\ ret' = <<>>
                  /\ obs' = [obs EXCEPT !.outcome = "Success"]
                  /\ pc' = "close"
                  /\ UNCHANGED localErr
    /\ UNCHANGED <<hrb, requests, built, call, resp, target>>

\* decodeFailure that returns a request-build error.
decodeFailure_AsBuildError(variant, err) ==
    IF variant = "doRequest"
    THEN NewRequestBuildError("InvalidRequestErr",
             Wrap(err, "Failed to decode response body into given responseRef %T variable"))
    ELSE PlainError(Wrap(err, "Failed to decode response body into responseRef"))

\* The error returned when the body cannot be decoded into respRef.
decodeFailure(variant, err) ==
    IF variant = "doRequest"
    THEN NewRequestResponseParseError("InvalidRequestErr",
             Wrap(err, "Failed to decode response body into given responseRef %T variable"))
    ELSE PlainError(Wrap(err, "Failed to decode response body into responseRef"))

\* doRequest / HttpClient.do: "Read the body into respRef".
Decoding ==
    /\ pc = "decode"
    /\ \E readOk \in BOOLEAN :
          LET u == unmarshalResponseBody(resp[1], call.respRef[1], readOk)
          IN /\ localErr' = u.err
             /\ target' = IF u.writes THEN u.val[1] @@ target ELSE target
             /\ IF u.err # <<>>
                THEN /\ ret' = <<decodeFailure(call.variant, u.err[1])>>
                     /\ obs' = [obs EXCEPT !.outcome = "DecodeFailed", !.decoded = TRUE]
                ELSE /\ ret' = <<>>
                     /\ obs' = [obs EXCEPT !.outcome = "Success", !.decoded = TRUE]
    /\ pc' = "close"
    /\ UNCHANGED <<hrb, requests, built, call, resp>>

\* The deferred function: the local err after resp.Body.Close() returned
\* errBodyClose.  The function results are unnamed, so the value already
\* returned is not affected.
deferredClose(variant, err, closeOk) ==
    IF closeOk THEN err
    ELSE IF err = <<>> THEN <<Wrap(New("close error"), "Failed to close response body")>>
    ELSE IF variant = "doRequest" THEN <<Wrap(err[1], "Failed to close response body: close error")>>
    ELSE err

\* The close as a last statement instead of a deferred one: the body is closed
\* only when no earlier return was taken.
DeferredClose_LastStatement ==
    /\ pc = "close"
    /\ \E closeOk \in BOOLEAN :
          localErr' = IF ret = <<>> THEN deferredClose(call.variant, localErr, closeOk)
                      ELSE localErr
    /\ obs' = [obs EXCEPT !.closes = IF ret = <<>> THEN @ + 1 ELSE @]
    /\ pc' = "returned"
    /\ UNCHANGED <<hrb, requests, built, call, resp, ret, target>>

\* doRequest / HttpClient.do: the deferred close of the response body, after
\* which the call has returned.
DeferredClose ==
    /\ pc = "close"
    /\ \E closeOk \in BOOLEAN :
          localErr' = deferredClose(call.variant, localErr, closeOk)
    /\ obs' = [obs EXCEPT !.closes = @ + 1]
    /\ pc' = "returned"
    /\ UNCHANGED <<hrb, requests, built, call, resp, ret, target>>

----------------------------------------------------------------------------
(* The legacy pipeline: NewRequest and the one-liner wrappers *)

NewRequestFailed(message, cause) ==
    [req |-> <<>>, err |-> <<Wrap(cause, message)>>]

\* NewRequest from req.Close = true on.
finishNewRequest(ri, r, order) ==
    IF Len(ri.PathElements) # 0 /\ ~ParseRequestURI(r.URL.Path)
    THEN NewRequestFailed("Invalid Request URI", New("parse error"))
    ELSE [req |-> <<[r EXCEPT
                       !.URL.RawQuery = IF ri.QueryParams # <<>>
                                        THEN Encode(ri.QueryParams[1]) ELSE @,
                       !.Header = IF ri.Headers # <<>>
                                  THEN setCustomHeaders(@, ri.Headers[1], order) ELSE @]>>,
          err |-> <<>>]

\* NewRequest once the body is marshalled: nr is what http.NewRequest returned.
newRequestBuilt(ri, nr, order) ==
    IF ~nr.ok THEN NewRequestFailed("Failed to construct http.Request", New("parse error"))
    ELSE finishNewRequest(ri, [nr.req EXCEPT !.Close = TRUE], order)

\* NewRequest(ri): [req, err]; order is the order in which the range over
\* ri.Headers yields its keys.
NewRequest(ri, order) ==
    IF ri.Body # <<>> /\ ~Marshal(ri.Body[1]).ok
    THEN NewRequestFailed("Failed to marshal request body", New("json: unsupported type"))
    ELSE newRequestBuilt(ri,
                         httpNewRequest("", buildEndpoint(ri.Scheme, ri.Host, ri.PathElements),
                                        IF ri.Body # <<>> THEN <<Marshal(ri.Body[1]).bytes>> ELSE <<>>),
                         order)

NewRequestInfo(scheme, host, pathElements, queryParams, headers, body) ==
    [Scheme |-> scheme, Host |-> host, PathElements |-> pathElements,
     Headers |-> headers, Body |-> body, QueryParams |-> queryParams]

RequestInfos ==
    {NewRequestInfo(HTTP, Str(<<"h">>), <<Str(<<"a">>)>>, <<>>, <<>>, <<>>),
     NewRequestInfo(HTTP, Str(<<"h">>), <<>>, <<Str(<<"q">>) :> <<Str(<<"1">>)>>>>,
                    <<XB :> <<"1">>>>, <<"trb">>),
     NewRequestInfo(<<>>, Str(<<"h">>), <<>>, <<>>, <<>>, <<>>),
     NewRequestInfo(HTTP, <<>>, <<>>, <<>>, <<>>, <<>>),
     NewRequestInfo(HTTP, Str(<<"h">>), <<Str(<<"%">>)>>, <<>>, <<>>, <<>>),
     NewRequestInfo(HTTP, Str(<<"h">>), <<>>, <<>>, <<>>, <<"chan">>)}

\* NewRequestAndClient, NewDoRequestInfo and the call of the client method, as
\* the Perform...Request wrappers do them.  The wrappers pass &responseRef, so
\* respRef is never nil; a caller uses either the builder or the wrappers.
performRequest(method, ri, auth, responseRef, loggingEnabled, timeout) ==
    /\ pc = "configure"
    /\ hrb = RequestBuilder
    /\ requests = <<>>
    /\ \E order \in Orders(IF ri.Headers = <<>> THEN {} ELSE DOMAIN ri.Headers[1]) :
          \E nr \in {NewRequest(ri, order)} :
             IF nr.err # <<>>
             THEN /\ ret' = <<PlainError(Wrap(Wrap(nr.err[1], "Could not create request"),
                                              "Could not create request and client"))>>
                  /\ obs' = [obs EXCEPT !.outcome = "NewRequestFailed"]
                  /\ pc' = "returned"
                  /\ UNCHANGED <<requests, call>>
             ELSE /\ requests' = nr.req
                  /\ call' = [NoCall EXCEPT !.variant = "do",
                                            !.req = 1,
                                            !.method = method,
                                            !.auth = auth,
                                            !.respRef = <<responseRef>>,
                                            !.loggingEnabled = loggingEnabled,
                                            !.hcTimeout = timeout,
                                            !.clientTimeout = <<NewHttpClient(timeout)>>]
                  /\ obs' = [obs EXCEPT !.clients = @ + 1]
                  /\ pc' = "headers"
                  /\ UNCHANGED ret
    /\ UNCHANGED <<hrb, built, resp, localErr, target>>

PerformGetRequest(ri, auth, responseRef, loggingEnabled, timeout) ==
    performRequest("GET", ri, auth, responseRef, loggingEnabled, timeout)

PerformPostRequest(ri, auth, responseRef, loggingEnabled, timeout) ==
    performRequest("POST", ri, auth, responseRef, loggingEnabled, timeout)

PerformPutRequest(ri, auth, responseRef, loggingEnabled, timeout) ==
    performRequest("PUT", ri, auth, responseRef, loggingEnabled, timeout)

PerformPatchRequest(ri, auth, responseRef, loggingEnabled, timeout) ==
    performRequest("PATCH", ri, auth, responseRef, loggingEnabled, timeout)

PerformDeleteRequest(ri, auth, responseRef, loggingEnabled, timeout) ==
    performRequest("DELETE", ri, auth, responseRef, loggingEnabled, timeout)

\* NewDoRequestInfoWithTimeout
NewDoRequestInfoWithTimeout(request, auth, responseReference, requestTimeout) ==
    [request |-> request, auth |-> auth, respRef |-> responseReference,
     requestTimeout |-> requestTimeout]

\* A caller of the legacy client: NewHttpClient(loggingEnabled, timeout), then
\* one of its five methods on a DoRequestInfo; the method calls hc.do.
httpClientDo(method, loggingEnabled, timeout, dri) ==
    /\ pc = "configure"
    /\ hrb = RequestBuilder
    /\ requests = <<>>
    /\ requests' = <<dri.request>>
    /\ call' = [NoCall EXCEPT !.variant = "do",
                              !.req = 1,
                              !.method = method,
                              !.auth = dri.auth,
                              !.respRef = dri.respRef,
                              !.loggingEnabled = loggingEnabled,
                              !.timeout = dri.requestTimeout,
                              !.hcTimeout = timeout,
                              !.clientTimeout = <<NewHttpClient(timeout)>>]
    /\ obs' = [obs EXCEPT !.clients = @ + 1]
    /\ pc' = "headers"
    /\ UNCHANGED <<hrb, built, resp, localErr, ret, target>>

HttpClientGet(loggingEnabled, timeout, dri) == httpClientDo("GET", loggingEnabled, timeout, dri)

HttpClientPost(loggingEnabled, timeout, dri) == httpClientDo("POST", loggingEnabled, timeout, dri)

HttpClientPut(loggingEnabled, timeout, dri) == httpClientDo("PUT", loggingEnabled, timeout, dri)

HttpClientPatch(loggingEnabled, timeout, dri) == httpClientDo("PATCH", loggingEnabled, timeout, dri)

HttpClientDelete(loggingEnabled, timeout, dri) == httpClientDo("DELETE", loggingEnabled, timeout, dri)

\* http.Client.deadline: a Timeout of zero means no deadline.
deadline(clientTimeout) ==
    IF clientTimeout # <<>> /\ clientTimeout[1] > 0 THEN clientTimeout ELSE <<>>

\* The time bound of client.Do(req): the earlier of the deadline of the
\* request's context and the client's own deadline; <<>> when there is neither.
timeBound(ctxTimeout, clientTimeout) ==
    IF ctxTimeout = <<>> THEN deadline(clientTimeout)
    ELSE IF deadline(clientTimeout) = <<>> THEN ctxTimeout
    ELSE IF ctxTimeout[1] < clientTimeout[1] THEN ctxTimeout
    ELSE clientTimeout

\* The caller calls a verb of the descriptor it holds once more, after the
\* call before has returned: hr.Get() and its siblings have value receivers
\* and can be called again.
Again ==
    /\ pc = "returned"
    /\ call.variant = "doRequest"
    /\ ~obs.again
    /\ call' = NoCall
    /\ resp' = <<>>
    /\ localErr' = <<>>
    /\ ret' = <<>>
    /\ obs' = [obs EXCEPT !.again = TRUE, !.outcome = "", !.network = "",
                          !.errorBodyRead = "", !.decoded = FALSE]
    /\ pc' = "built"
    /\ UNCHANGED <<hrb, requests, built, target>>

----------------------------------------------------------------------------
(* Specifications *)

\* What a wrapper's responseRef (an interface{}, passed on as &responseRef)
\* holds: a pointer to a struct, or nothing.
WrapperRefs == {[kind |-> "ifacePtrStruct"], [kind |-> "iface"]}

WrapperTimeouts == {0, 5}

\* The header mappings of the exchange: none, or the caller's own Accept and
\* Content-Type.
ExchangeHeaders == {h \in HeaderInputs : h = <<>> \/ Accept \in DOMAIN h[1]}

\* The exchange: a caller that names a valid scheme and host, configures the
\* execution (headers, authenticator, response reference, timeout, logging),
\* builds and calls one of the five verbs, or calls one of the five one-liner
\* wrappers instead of touching the builder, against every network outcome.
Next ==
    \/ Scheme(HTTP)
    \/ Host(Str(<<"h">>))
    \/ \E h \in ExchangeHeaders : Header(h)
    \/ \E a \in AuthInputs : Auth(a)
    \/ \E r \in RespRefInputs : ResponseReference(r)
    \/ \E t \in TimeoutInputs : Timeout(t)
    \/ \E e \in BOOLEAN : LoggingEnabled(e)
    \/ Build
    \/ Get
    \/ Post
    \/ Put
    \/ Patch
    \/ Delete
    \/ /\ hrb = RequestBuilder
       /\ \E ri \in RequestInfos, a \in AuthInputs, r \in WrapperRefs, e \in BOOLEAN,
             t \in WrapperTimeouts : PerformGetRequest(ri, a, r, e, t)
    \/ /\ hrb = RequestBuilder
       /\ \E ri \in RequestInfos, a \in AuthInputs, r \in WrapperRefs, e \in BOOLEAN,
             t \in WrapperTimeouts : PerformPostRequest(ri, a, r, e, t)
    \/ /\ hrb = RequestBuilder
       /\ \E ri \in RequestInfos, a \in AuthInputs, r \in WrapperRefs, e \in BOOLEAN,
             t \in WrapperTimeouts : PerformPutRequest(ri, a, r, e, t)
    \/ /\ hrb = RequestBuilder
       /\ \E ri \in RequestInfos, a \in AuthInputs, r \in WrapperRefs, e \in BOOLEAN,
             t \in WrapperTimeouts : PerformPatchRequest(ri, a, r, e, t)
    \/ /\ hrb = RequestBuilder
       /\ \E ri \in RequestInfos, a \in AuthInputs, r \in WrapperRefs, e \in BOOLEAN,
             t \in WrapperTimeouts : PerformDeleteRequest(ri, a, r, e, t)
    \/ UniversalHeaders
    \/ Authenticating
    \/ \E o \in Outcomes : Sending(o)
    \/ Classifying
    \/ Decoding
    \/ DeferredClose

Spec == Init /\ [][Next]_vars

\* The assembly: a caller that sets the request fields to every input,
\* supplies a request of its own or not, and builds.
NextBuild ==
    \/ \E scheme \in Schemes : Scheme(scheme)
    \/ \E host \in Hosts : Host(host)
    \/ \E pe \in PathInputs : PathElements(pe)
    \/ \E qp \in QueryInputs : QueryParams(qp)
    \/ \E h \in HeaderInputs : Header(h)
    \/ \E b \in BodyInputs : Body(b)
    \/ \E b \in BodyJsonInputs : BodyJson(b)
    \/ \E req \in PreparedRequests : Request(req)
    \/ Build

SpecBuild == Init /\ [][NextBuild]_vars

\* Schemes, hosts and path segments for the endpoint: a scheme in upper case, a
\* host with a port, segments with a slash, a percent sign, a question mark, a
\* space, and the empty segment.
EndpointSchemes == {<<>>, HTTP, Str(<<"H","T","T","P">>)}

EndpointHosts == {<<>>, Str(<<"h">>), Str(<<"h",":","8","0">>)}

EndpointSegments ==
    {Str(<<"a">>), Str(<<"a","/","b">>), Str(<<"%">>), Str(<<"?">>), Str(<<"a"," ","b">>), <<>>}

EndpointPaths ==
    {<<>>} \cup {<<e>> : e \in EndpointSegments}
           \cup {<<e, f>> : e \in EndpointSegments, f \in EndpointSegments}

\* The URL a caller writes for the components f: the endpoint of scheme, host
\* and path elements, and the encoded query mapping after a "?" when there is
\* one that is not empty.
EndpointUrl(f) ==
    buildEndpoint(f.scheme, f.host, f.pathElements)
       \o (IF f.queryParams = <<>> THEN <<>>
           ELSE IF Len(Encode(f.queryParams[1])) = 0 THEN <<>>
           ELSE <<63>> \o Encode(f.queryParams[1]))

\* The endpoint: a caller that sets scheme, host and path elements, and builds.
NextEndpoint ==
    \/ \E scheme \in EndpointSchemes : Scheme(scheme)
    \/ \E host \in EndpointHosts : Host(host)
    \/ \E pe \in EndpointPaths : PathElements(pe)
    \/ Build

\* Path elements for the raw URL: none, one segment, a segment with a slash,
\* segments with a space and a question mark.
RawUrlPaths ==
    {<<>>, <<Str(<<"a">>)>>, <<Str(<<"a","/","b">>)>>, <<Str(<<"a"," ","b">>), Str(<<"?">>)>>}

\* The raw URL of components: a caller that sets scheme, host, path elements
\* and query mapping one by one, gives the raw URL of the components it has
\* set, and builds.
NextRawUrl ==
    \/ \E scheme \in EndpointSchemes \ {<<>>} : Scheme(scheme)
    \/ Host(Str(<<"h">>))
    \/ \E pe \in RawUrlPaths : PathElements(pe)
    \/ \E qp \in QueryInputs : QueryParams(qp)
    \/ /\ obs.fields.scheme # <<>>
       /\ obs.fields.host # <<>>
       /\ obs.raw = <<>>
       /\ RawUrl(EndpointUrl(obs.fields))
    \/ Build

SpecRawUrl == Init /\ [][NextRawUrl]_vars

SpecEndpoint == Init /\ [][NextEndpoint]_vars

\* Reuse of a builder: a caller that configures a builder, builds, goes on
\* with the same builder value, and builds again.
NextRebuild ==
    \/ Scheme(HTTP)
    \/ Host(Str(<<"h">>))
    \/ \E qp \in QueryInputs : QueryParams(qp)
    \/ \E h \in HeaderInputs : Header(h)
    \/ \E b \in BodyInputs : Body(b)
    \/ \E req \in PreparedRequests : Request(req)
    \/ Build
    \/ Reuse

SpecRebuild == Init /\ [][NextRebuild]_vars

\* Header mappings and network outcomes of a descriptor that is executed twice.
RerunHeaders == {h \in HeaderInputs : h = <<>> \/ XA \in DOMAIN h[1]}

RerunOutcomes == {o \in Outcomes : o.kind = "error" \/ (o.kind = "response" /\ o.StatusCode \in {200, 404})}

\* Repeated execution: a caller that builds a descriptor and calls a verb on
\* it, and when that has returned calls a verb on it again.
NextRerun ==
    \/ Scheme(HTTP)
    \/ Host(Str(<<"h">>))
    \/ \E h \in RerunHeaders : Header(h)
    \/ \E a \in {<<>>, <<"basic">>} : Auth(a)
    \/ \E r \in {<<>>, <<[kind |-> "ptrStruct"]>>} : ResponseReference(r)
    \/ Build
    \/ Get
    \/ Post
    \/ Put
    \/ Patch
    \/ Delete
    \/ UniversalHeaders
    \/ Authenticating
    \/ \E o \in RerunOutcomes : Sending(o)
    \/ Classifying
    \/ Decoding
    \/ DeferredClose
    \/ Again

SpecRerun == Init /\ [][NextRerun]_vars

PairOutcomes == {o \in Outcomes : o.kind = "error" \/ (o.kind = "response" /\ o.StatusCode \in {200, 404})}

\* Two exchanges at once: a caller that builds two descriptors and calls a
\* verb on each from a thread of control of its own.
NextPair ==
    \/ Scheme(HTTP)
    \/ Host(Str(<<"h">>))
    \/ \E a \in AuthInputs : Auth(a)
    \/ ResponseReference(<<[kind |-> "ptrStruct"]>>)
    \/ Build
    \/ Reuse
    \/ Spawn
    \/ Yield
    \/ Get
    \/ Post
    \/ UniversalHeaders
    \/ Authenticating
    \/ \E o \in PairOutcomes : Sending(o)
    \/ Classifying
    \/ Decoding
    \/ DeferredClose

SpecPair == Init /\ [][NextPair]_vars

\* The timeouts a caller gives the legacy client and one call of it.
ClientTimeouts == {-1, 0, 5, 90}

RequestTimeouts == {-1, 0, 3, 5, 7, 90}

\* The DoRequestInfos of a caller with a request of its own.
DoRequestInfos ==
    {NewDoRequestInfoWithTimeout(req, <<>>, <<>>, t) :
        req \in PreparedRequests, t \in RequestTimeouts}

\* The time bound: a caller that sets the builder's timeout and response
\* reference, builds and calls a verb, or creates a legacy client with a timeout and calls one of its
\* methods with a DoRequestInfo that has a timeout of its own.
NextTimeout ==
    \/ Scheme(HTTP)
    \/ Host(Str(<<"h">>))
    \/ \E t \in TimeoutInputs : Timeout(t)
    \/ \E r \in RespRefInputs : ResponseReference(r)
    \/ Build
    \/ Get
    \/ Post
    \/ Put
    \/ Patch
    \/ Delete
    \/ \E t \in ClientTimeouts, dri \in DoRequestInfos : HttpClientGet(FALSE, t, dri)
    \/ \E t \in ClientTimeouts, dri \in DoRequestInfos : HttpClientPost(FALSE, t, dri)
    \/ \E t \in ClientTimeouts, dri \in DoRequestInfos : HttpClientPut(FALSE, t, dri)
    \/ \E t \in ClientTimeouts, dri \in DoRequestInfos : HttpClientPatch(FALSE, t, dri)
    \/ \E t \in ClientTimeouts, dri \in DoRequestInfos : HttpClientDelete(FALSE, t, dri)
    \/ UniversalHeaders
    \/ Authenticating
    \/ \E o \in Outcomes : Sending(o)
    \/ Classifying
    \/ Decoding
    \/ DeferredClose

SpecTimeout == Init /\ [][NextTimeout]_vars

\* Header mappings for the header step: those of the assembly, and an Accept
\* whose first value is the empty string.
HeaderStepInputs ==
    HeaderInputs \cup {<<(Accept :> <<"", "text/plain">>)>>}

\* The header step: a caller that gives a header mapping, or a request of its
\* own, builds and calls a verb, or calls a wrapper, up to the authenticator.
NextHeaders ==
    \/ Scheme(HTTP)
    \/ Host(Str(<<"h">>))
    \/ \E h \in HeaderStepInputs : Header(h)
    \/ \E req \in PreparedRequests : Request(req)
    \/ \E a \in AuthInputs : Auth(a)
    \/ Build
    \/ Get
    \/ Post
    \/ Put
    \/ Patch
    \/ Delete
    \/ /\ hrb = RequestBuilder
       /\ \E ri \in RequestInfos, a \in AuthInputs :
             PerformGetRequest(ri, a, [kind |-> "iface"], FALSE, 0)
    \/ /\ hrb = RequestBuilder
       /\ \E ri \in RequestInfos, a \in AuthInputs :
             PerformPostRequest(ri, a, [kind |-> "iface"], FALSE, 0)
    \/ /\ hrb = RequestBuilder
       /\ \E ri \in RequestInfos, a \in AuthInputs :
             PerformPutRequest(ri, a, [kind |-> "iface"], FALSE, 0)
    \/ /\ hrb = RequestBuilder
       /\ \E ri \in RequestInfos, a \in AuthInputs :
             PerformPatchRequest(ri, a, [kind |-> "iface"], FALSE, 0)
    \/ /\ hrb = RequestBuilder
       /\ \E ri \in RequestInfos, a \in AuthInputs :
             PerformDeleteRequest(ri, a, [kind |-> "iface"], FALSE, 0)
    \/ UniversalHeaders
    \/ Authenticating

SpecHeaders == Init /\ [][NextHeaders]_vars

\* The origins of the URL: a caller that sets the URL fields one by one, gives
\* raw URLs, supplies a request of its own or not, in any order, and builds.
NextOrigin ==
    \/ \E scheme \in Schemes : Scheme(scheme)
    \/ \E host \in Hosts : Host(host)
    \/ \E pe \in PathInputs : PathElements(pe)
    \/ \E qp \in QueryInputs : QueryParams(qp)
    \/ \E rawUrl \in RawUrlInputs : RawUrl(rawUrl)
    \/ \E req \in PreparedRequests : Request(req)
    \/ Build

SpecOrigin == Init /\ [][NextOrigin]_vars

----------------------------------------------------------------------------
(* Properties of the exchange, checked under Spec *)

\* The executor call of the builder pipeline has produced its return value:
\* it has returned, or only the deferred close is still to run.
DoRequestDone == call.variant = "doRequest" /\ pc \in {"close", "returned"}

\* The number of facets an error reports as true.
FacetCount(e) ==
    Cardinality({f \in {"isTimeout", "isConnectionErr", "isResponseParseErr",
                        "isRequestBuildErr"} : e[f]})

\* C1: for a received response with status code s >= 400 whose body was read,
\* the error doRequest returns reports status code s, carries the top-level
\* error the table assigns to s, and has the response body as its message.
C1_StatusErrorClassified ==
    (DoRequestDone /\ resp # <<>> /\ obs.errorBodyRead = "ok" /\ resp[1].StatusCode >= 400)
    => /\ ret # <<>>
       /\ ret[1].statusCode = resp[1].StatusCode
       /\ ret[1].err = <<resp[1].Body>>
       /\ ret[1].topLevelErr =
             CASE resp[1].StatusCode = 401 -> "UnauthorizedErr"
               [] resp[1].StatusCode = 403 -> "ForbiddenErr"
               [] resp[1].StatusCode = 404 -> "RecordNotFoundErr"
               [] resp[1].StatusCode = 400 -> "ParseErr"
               [] resp[1].StatusCode = 429 -> "TooManyRequestErr"
               [] resp[1].StatusCode = 422 -> "UnprocessableEntityErr"
               [] resp[1].StatusCode = 500 -> "InternalServerErr"
               [] resp[1].StatusCode = 503 -> "ServiceUnavailableErr"
               [] OTHER -> "UnexpectedResponseCodeErr"

\* A 418 response with a plain JSON body came back as an unexpected-status error.
C1_Witness ==
    /\ pc = "returned"
    /\ call.variant = "doRequest"
    /\ resp # <<>>
    /\ resp[1].StatusCode = 418
    /\ obs.errorBodyRead = "ok"
    /\ ret # <<>>
    /\ ret[1].topLevelErr = "UnexpectedResponseCodeErr"
    /\ ret[1].statusCode = 418

\* C2 as stated: whenever the network call yields no response, the returned
\* error reports status code 0.
C2_TransportFailureReportsZero ==
    (DoRequestDone /\ obs.outcome = "TransportFailed") => ret[1].statusCode = 0

\* C2, amended: when the network call yields no response, the returned error
\* reports status code 0 unless the failure is a timeout, and 408 when it is.
C2_TransportFailureStatus ==
    (DoRequestDone /\ obs.outcome = "TransportFailed")
    => /\ resp = <<>>
       /\ ret # <<>>
       /\ ret[1].statusCode = IF obs.network = "timeout" THEN 408 ELSE 0

\* The network call timed out and the caller got an error with status 408.
C2_Witness ==
    /\ pc = "returned"
    /\ call.variant = "doRequest"
    /\ obs.outcome = "TransportFailed"
    /\ obs.network = "timeout"
    /\ ret[1].statusCode = 408

\* C3 as stated: an error returned after a response was received reports that
\* response's status code, and a reported 0 means no response was obtained.
C3_ErrorCarriesRealStatus ==
    (DoRequestDone /\ ret # <<>>)
    => /\ resp # <<>> => ret[1].statusCode = resp[1].StatusCode
       /\ ret[1].statusCode = 0 => resp = <<>>

\* C3, amended: an error returned after a response was received reports that
\* response's status code when it is an HTTP-status error, and 0 when it is a
\* response-parse error (the body of a failed response could not be read, or
\* the body could not be decoded); so a reported 0 means that no response was
\* obtained or that the response could not be read or decoded.
C3_ErrorStatusAfterResponse ==
    (DoRequestDone /\ ret # <<>>)
    => /\ resp # <<>> =>
             IF ret[1].isResponseParseErr
             THEN /\ ret[1].statusCode = 0
                  /\ obs.errorBodyRead = "failed" \/ obs.outcome = "DecodeFailed"
             ELSE /\ ret[1].statusCode = resp[1].StatusCode
                  /\ resp[1].StatusCode >= 400
       /\ ret[1].statusCode = 0 => (resp = <<>> \/ ret[1].isResponseParseErr)

\* A 200 response whose body could not be decoded: the error reports 0.
C3_Witness ==
    /\ pc = "returned"
    /\ call.variant = "doRequest"
    /\ resp # <<>>
    /\ resp[1].StatusCode = 200
    /\ obs.outcome = "DecodeFailed"
    /\ ret # <<>>
    /\ ret[1].statusCode = 0

\* The errors of the builder pipeline a caller may hold: Build's and doRequest's.
ReturnedErrors ==
    {built.err[i] : i \in DOMAIN built.err}
    \cup (IF call.variant = "doRequest" THEN {ret[i] : i \in DOMAIN ret} ELSE {})

\* C4 as stated: every returned error has exactly one facet true, except the
\* errors of the HTTP-status path, which have none and a non-zero status code.
C4_ExactlyOneFacet ==
    \A e \in ReturnedErrors :
        \/ FacetCount(e) = 1
        \/ FacetCount(e) = 0 /\ e.statusCode # 0

\* C4, amended: every returned error has exactly one facet true and status
\* code 0, except the errors of the HTTP-status path (no facet, the response's
\* status code, which is 400 or more) and the timeout errors (the timeout and
\* the connection facet both true, status code 408).
C4_Facets ==
    \A e \in ReturnedErrors :
        \/ FacetCount(e) = 1 /\ ~e.isTimeout /\ e.statusCode = 0
        \/ FacetCount(e) = 0 /\ e.statusCode >= 400
        \/ FacetCount(e) = 2 /\ e.isTimeout /\ e.isConnectionErr /\ e.statusCode = 408

\* A timeout error with two facets true has been returned.
C4_Witness ==
    /\ pc = "returned"
    /\ call.variant = "doRequest"
    /\ ret # <<>>
    /\ ret[1].isTimeout
    /\ ret[1].isConnectionErr
    /\ FacetCount(ret[1]) = 2

\* C5: on a transport failure the returned error reports Timeout() exactly
\* when the failure is a timeout, ConnectionError() in both cases, and neither
\* ResponseParseError() nor RequestBuildError().
C5_TransportFailureFacets ==
    (DoRequestDone /\ obs.outcome = "TransportFailed")
    => /\ ret # <<>>
       /\ ret[1].isTimeout <=> obs.network = "timeout"
       /\ ret[1].isConnectionErr
       /\ ~ret[1].isResponseParseErr
       /\ ~ret[1].isRequestBuildErr

\* A transport failure that is no timeout came back as a connection error only.
C5_Witness ==
    /\ pc = "returned"
    /\ call.variant = "doRequest"
    /\ obs.outcome = "TransportFailed"
    /\ obs.network = "error"
    /\ ret[1].isConnectionErr
    /\ ~ret[1].isTimeout

\* C6: for a received response with status code below 400 the classifier
\* returns no error; with a response reference the body is then decoded into
\* it, and when decoding succeeds the call returns no error (and a referenced
\* struct holds the decoded value).
C6_BelowFourHundred ==
    (pc \in {"decode", "close", "returned"} /\ resp # <<>> /\ resp[1].StatusCode < 400)
    => /\ obs.outcome # "StatusError"
       /\ obs.errorBodyRead = ""
       /\ pc \in {"close", "returned"} =>
             /\ obs.decoded <=> call.respRef # <<>>
             /\ obs.outcome # "DecodeFailed" => ret = <<>>
             /\ (/\ obs.outcome # "DecodeFailed"
                 /\ call.respRef # <<>>
                 /\ call.respRef[1].kind \in {"ptrStruct", "ifacePtrStruct"})
                => target = JsonObjects[resp[1].Body] @@ ZeroTarget

\* A 301 response was decoded into the caller's struct and no error returned.
C6_Witness ==
    /\ pc = "returned"
    /\ resp # <<>>
    /\ resp[1].StatusCode = 301
    /\ call.respRef = <<[kind |-> "ptrStruct"]>>
    /\ obs.decoded
    /\ target.x = 1
    /\ ret = <<>>

\* C7: for a received response with status code 400 or more the executor
\* returns the classifier's error without decoding the body, and the caller's
\* response object holds the value it had before the call.
C7_StatusErrorSkipsDecode ==
    /\ pc = "decode" => resp[1].StatusCode < 400
    /\ (pc \in {"close", "returned"} /\ resp # <<>> /\ resp[1].StatusCode >= 400)
       => /\ ret # <<>>
          /\ obs.outcome = "StatusError"
          /\ ~obs.decoded
          /\ target = ZeroTarget

\* A 401 response with a JSON body the target could have been filled from: the
\* error came back and the target is as it was.
C7_Witness ==
    /\ pc = "returned"
    /\ resp # <<>>
    /\ resp[1].StatusCode = 401
    /\ resp[1].Body \in DOMAIN JsonObjects
    /\ call.respRef = <<[kind |-> "ptrStruct"]>>
    /\ ret # <<>>
    /\ target = ZeroTarget

\* C9: Build sends nothing and creates no client; a Build that returns an
\* error returns no descriptor, so that no executor call follows it; and a
\* wrapper whose request construction fails returns the error before it has
\* created a client or sent anything.
C9_NoExchangeAfterFailedBuild ==
    /\ pc = "built" => (obs.sends = 0 /\ obs.clients = 0)
    /\ built.err # <<>> =>
          (built.hr = <<>> /\ call = NoCall /\ obs.sends = 0 /\ obs.clients = 0)
    /\ obs.outcome = "NewRequestFailed" =>
          (pc = "returned" /\ ret # <<>> /\ obs.sends = 0 /\ obs.clients = 0)

\* A build has failed on the empty scheme, and nothing was sent.
C9_Witness ==
    /\ pc = "built"
    /\ hrb.ri.scheme = <<>>
    /\ built.err # <<>>
    /\ built.hr = <<>>
    /\ obs.sends = 0

----------------------------------------------------------------------------
(* Properties of the assembly, checked under SpecBuild *)

\* C8: Build without a request of the caller's returns a request-build error
\* and no descriptor whenever the scheme or the host is empty; with a request
\* of the caller's, Build returns the same whatever the scheme and the host
\* are, and the only error it can return is that of the path check.
C8_RequiredFields ==
    pc = "built" =>
       IF hrb.hr.request = <<>>
       THEN (hrb.ri.scheme = <<>> \/ hrb.ri.host = <<>>)
            => /\ built.hr = <<>>
               /\ built.err # <<>>
               /\ built.err[1].isRequestBuildErr
       ELSE /\ built.err # <<>> =>
                  (Len(hrb.ri.pathElements) # 0 /\ built.err[1].err[1] = "Invalid Request URI")
            /\ \A scheme \in Schemes, host \in Hosts :
                  BuildResult([hrb EXCEPT !.ri.scheme = scheme, !.ri.host = host], requests,
                              CHOOSE order \in Orders(HeaderKeys(hrb)) : TRUE).err = built.err

\* A build with a scheme and no host has failed.
C8_Witness ==
    /\ pc = "built"
    /\ hrb.hr.request = <<>>
    /\ hrb.ri.scheme # <<>>
    /\ hrb.ri.host = <<>>
    /\ built.hr = <<>>
    /\ built.err # <<>>
    /\ built.err[1].isRequestBuildErr

\* The header of the request a successful Build returned.
BuiltHeader == requests[built.hr[1].request[1]].Header

\* The header mapping given to the builder (empty when it is nil).
HeaderMapping == IF hrb.ri.header = <<>> THEN EmptyHeader ELSE hrb.ri.header[1]

\* The keys of the mapping that are not empty and have a value.
AddingKeys == {k \in DOMAIN HeaderMapping : k # <<>> /\ Len(HeaderMapping[k]) >= 1}

\* The values of the mapping's keys, taken in the given order of the keys.
RECURSIVE ValuesInOrder(_)
ValuesInOrder(order) ==
    IF Len(order) = 0 THEN <<>>
    ELSE HeaderMapping[order[1]] \o ValuesInOrder(Tail(order))

\* The values under the keys no adding key of the mapping is a spelling of are
\* as they were before Build.
OtherKeysUnchanged ==
    \A ck \in DOMAIN BuiltHeader \cup DOMAIN obs.headerBefore :
        (\A k \in AddingKeys : CanonicalMIMEHeaderKey(k) # ck)
        => /\ ck \in DOMAIN BuiltHeader
           /\ ck \in DOMAIN obs.headerBefore
           /\ BuiltHeader[ck] = obs.headerBefore[ck]

\* C10 as stated: after Build the values under every non-empty key of the
\* mapping that has values are the values before Build followed by that
\* entry's values in their order, and the values under other keys are unchanged.
C10_EntryValuesAppended ==
    (pc = "built" /\ built.hr # <<>>)
    => /\ \A k \in AddingKeys :
             HeaderValues(BuiltHeader, k) = HeaderValues(obs.headerBefore, k) \o HeaderMapping[k]
       /\ OtherKeysUnchanged

\* C10, amended: the request's header stores values under the canonical form
\* of a key.  After Build the values under a canonical key are the values
\* before Build followed by the values of the mapping's entries whose key has
\* that canonical form, each entry's values together and in their order, the
\* entries in no specified order; so the statement holds for an entry whose
\* key shares its canonical form with no other adding entry.  Other keys are
\* unchanged, and entries with an empty key or no values add nothing.
C10_CanonicalKeyValuesAppended ==
    (pc = "built" /\ built.hr # <<>>)
    => /\ \A k \in AddingKeys :
             \E order \in Orders({j \in AddingKeys :
                                    CanonicalMIMEHeaderKey(j) = CanonicalMIMEHeaderKey(k)}) :
                /\ CanonicalMIMEHeaderKey(k) \in DOMAIN BuiltHeader
                /\ BuiltHeader[CanonicalMIMEHeaderKey(k)] =
                      HeaderValues(obs.headerBefore, k) \o ValuesInOrder(order)
       /\ OtherKeysUnchanged

\* The caller's request had a value under X-A, the mapping has the keys x-a
\* and X-A, and the value of X-A was added before that of x-a.
C10_Witness ==
    /\ pc = "built"
    /\ built.hr # <<>>
    /\ hrb.hr.request # <<>>
    /\ AddingKeys = {xa, XA}
    /\ obs.headerBefore = (XA :> <<"0">>)
    /\ BuiltHeader[XA] = <<"0", "2", "1">>

\* The request a successful Build returned.
BuiltRequest == requests[built.hr[1].request[1]]

\* C11: when a query-parameter mapping is set, the built request's query
\* string is the encoding of the mapping (keys sorted, the values of a key in
\* their order), whatever query string the request had; when none is set, the
\* query string of the caller's request is as it was.
C11_QueryString ==
    (pc = "built" /\ built.hr # <<>>)
    => /\ hrb.ri.queryParams = <<Str(<<"q">>) :> <<Str(<<"1">>), Str(<<"a"," ","b">>)>>>>
          => BuiltRequest.URL.RawQuery = Str(<<"q","=","1","&","q","=","a","+","b">>)
       /\ hrb.ri.queryParams = <<EmptyHeader>>
          => BuiltRequest.URL.RawQuery = <<>>
       /\ (hrb.ri.queryParams # <<>> /\ DOMAIN hrb.ri.queryParams[1] = {Str(<<"a">>), Str(<<"b">>)})
          => BuiltRequest.URL.RawQuery =
                Str(<<"a","=","3","&","a","=","1","&","b","=","2">>)
       /\ hrb.ri.queryParams = <<>>
          => BuiltRequest.URL.RawQuery =
                IF obs.requestBefore = <<>> THEN <<>> ELSE obs.requestBefore[1].URL.RawQuery

\* The caller's request had the query x=1 and the two-key mapping replaced it.
C11_Witness ==
    /\ pc = "built"
    /\ built.hr # <<>>
    /\ obs.requestBefore # <<>>
    /\ obs.requestBefore[1].URL.RawQuery = Str(<<"x","=","1">>)
    /\ hrb.ri.queryParams # <<>>
    /\ DOMAIN hrb.ri.queryParams[1] = {Str(<<"a">>), Str(<<"b">>)}
    /\ BuiltRequest.URL.RawQuery = Str(<<"a","=","3","&","a","=","1","&","b","=","2">>)

\* C12: given a request of the caller's and a body stream, Build makes the
\* stream the request's body, whether it then fails or not, and leaves the
\* method and the URL as they were but for the query string a query mapping
\* replaces; the header values present before are still there, in front of
\* the appended ones.
C12_BodyReplacedOnly ==
    (pc = "built" /\ obs.requestBefore # <<>> /\ hrb.ri.body # <<>>)
    => /\ requests[hrb.hr.request[1]].Body = hrb.ri.body
       /\ requests[hrb.hr.request[1]].Method = obs.requestBefore[1].Method
       /\ [requests[hrb.hr.request[1]].URL EXCEPT !.RawQuery = <<>>]
             = [obs.requestBefore[1].URL EXCEPT !.RawQuery = <<>>]
       /\ hrb.ri.queryParams = <<>> =>
             requests[hrb.hr.request[1]].URL.RawQuery = obs.requestBefore[1].URL.RawQuery
       /\ \A k \in DOMAIN obs.requestBefore[1].Header :
             /\ k \in DOMAIN requests[hrb.hr.request[1]].Header
             /\ Len(requests[hrb.hr.request[1]].Header[k]) >= Len(obs.requestBefore[1].Header[k])
             /\ SubSeq(requests[hrb.hr.request[1]].Header[k], 1,
                       Len(obs.requestBefore[1].Header[k])) = obs.requestBefore[1].Header[k]

\* The caller's request with a header value and a query got the stream as
\* its body, and headers were appended to it.
C12_Witness ==
    /\ pc = "built"
    /\ built.hr # <<>>
    /\ obs.requestBefore # <<>>
    /\ obs.requestBefore[1].Body = <<>>
    /\ obs.requestBefore[1].Header = (XA :> <<"0">>)
    /\ hrb.ri.body = <<"stream">>
    /\ requests[hrb.hr.request[1]].Body = <<"stream">>
    /\ requests[hrb.hr.request[1]].Header # obs.requestBefore[1].Header

----------------------------------------------------------------------------
(* Properties of the URL's origins, checked under SpecOrigin *)

\* What a build yields: whether it fails, and the URL of the request if not.
OutcomeOf(r) ==
    [failed |-> r.err # <<>>,
     url |-> IF r.err # <<>> THEN <<>> ELSE <<r.requests[r.hr[1].request[1]].URL>>]

\* What Build yields on the builder value b and the request objects reqs.
BuildOutcome(b, reqs) ==
    OutcomeOf(BuildResult(b, reqs, CHOOSE order \in Orders(HeaderKeys(b)) : TRUE))

\* What the last Build yielded.
BuiltOutcome ==
    [failed |-> built.err # <<>>,
     url |-> IF built.err # <<>> THEN <<>> ELSE <<BuiltRequest.URL>>]

\* The builder with the URL fields as one origin alone would have left them.
WithFields(b, f) ==
    [b EXCEPT !.ri.scheme = f.scheme, !.ri.host = f.host,
              !.ri.pathElements = f.pathElements, !.ri.queryParams = f.queryParams]

NoFields == [scheme |-> <<>>, host |-> <<>>, pathElements |-> <<>>, queryParams |-> <<>>]

\* What Build would yield from each origin the caller has used, taken alone:
\* the caller's request, the last raw URL that parsed, the discrete fields.
SingleOriginOutcomes ==
    (IF hrb.hr.request # <<>>
     THEN {BuildOutcome(WithFields(hrb, NoFields), obs.requestBefore)} ELSE {})
    \cup (IF obs.raw # <<>>
          THEN {BuildOutcome(WithFields([hrb EXCEPT !.hr.request = <<>>], obs.raw[1]), <<>>)}
          ELSE {})
    \cup (IF obs.fields # NoFields
          THEN {BuildOutcome(WithFields([hrb EXCEPT !.hr.request = <<>>], obs.fields), <<>>)}
          ELSE {})

\* C13 as stated: what Build yields (failure, or the request's URL) is what
\* it would yield from one of the origins the caller used, taken alone.
C13_SingleOrigin ==
    (pc = "built" /\ SingleOriginOutcomes # {}) => BuiltOutcome \in SingleOriginOutcomes

\* C13, amended: with a request of the caller's, the builder's scheme and
\* host have no effect and scheme, host and path of the built request are
\* that request's, but non-empty path elements make Build check that
\* request's path and fail on an invalid one, and a query mapping replaces
\* its query.  Without one, the URL is built from the four fields, each
\* holding what a discrete setter or a raw URL that parsed wrote to it; a raw
\* URL that does not parse changes no field.
C13_OriginsMerge ==
    pc = "built" =>
       IF hrb.hr.request # <<>>
       THEN /\ \A scheme \in Schemes, host \in Hosts :
                  BuildOutcome([hrb EXCEPT !.ri.scheme = scheme, !.ri.host = host],
                               obs.requestBefore) = BuiltOutcome
            /\ BuiltOutcome.failed <=>
                  (Len(hrb.ri.pathElements) # 0 /\ obs.requestBefore[1].URL.Path = <<>>)
            /\ ~BuiltOutcome.failed =>
                  /\ [BuiltRequest.URL EXCEPT !.RawQuery = <<>>]
                        = [obs.requestBefore[1].URL EXCEPT !.RawQuery = <<>>]
                  /\ BuiltRequest.URL.RawQuery =
                        IF hrb.ri.queryParams # <<>> THEN Encode(hrb.ri.queryParams[1])
                        ELSE obs.requestBefore[1].URL.RawQuery
       ELSE /\ \A f \in {"scheme", "host", "pathElements", "queryParams"} :
                  \/ hrb.ri[f] = obs.fields[f]
                  \/ obs.raw # <<>> /\ hrb.ri[f] = obs.raw[1][f]
            /\ (hrb.ri.scheme = <<>> \/ hrb.ri.host = <<>>) => BuiltOutcome.failed
            /\ ~BuiltOutcome.failed =>
                  /\ BuiltRequest.URL.Scheme = hrb.ri.scheme
                  /\ BuiltRequest.URL.Host = hrb.ri.host

\* A raw URL without a path and path elements set afterwards: the built URL
\* has the raw URL's scheme and host and the path of the discrete field.
C13_Witness ==
    /\ pc = "built"
    /\ hrb.hr.request = <<>>
    /\ obs.raw # <<>>
    /\ obs.raw[1].pathElements = <<>>
    /\ obs.fields = [NoFields EXCEPT !.pathElements = <<Str(<<"a">>)>>]
    /\ built.err = <<>>
    /\ BuiltRequest.URL.Host = Str(<<"h">>)
    /\ BuiltRequest.URL.Path = Str(<<"/","a">>)

----------------------------------------------------------------------------
(* Properties of the header step, checked under SpecHeaders *)

\* The executor is past its header step.
PastHeaderStep == pc \in {"auth", "send", "returned"} /\ call.variant # ""

\* C14 as stated: after the header step Accept is application/json if it was
\* absent and has its prior values otherwise; Content-Type is application/json
\* if the method is POST, PUT or PATCH and it was absent, and has its prior
\* values (or stays absent) otherwise.
C14_UniversalHeaders ==
    PastHeaderStep
    => /\ HeaderValues(requests[call.req].Header, Accept) =
             IF HeaderValues(obs.headerAtEntry, Accept) = <<>>
             THEN <<"application/json">>
             ELSE HeaderValues(obs.headerAtEntry, Accept)
       /\ HeaderValues(requests[call.req].Header, ContentType) =
             IF /\ call.method \in {"POST", "PUT", "PATCH"}
                /\ HeaderValues(obs.headerAtEntry, ContentType) = <<>>
             THEN <<"application/json">>
             ELSE HeaderValues(obs.headerAtEntry, ContentType)

----------------------------------------------------------------------------
(* Properties of the executor's authentication step, checked under Spec *)

\* The builder pipeline's executor is past its authentication step and the
\* authenticator it was given has failed on the request.
AuthenticatorFailed ==
    /\ call.variant = "doRequest"
    /\ pc \in {"send", "received", "decode", "close", "returned"}
    /\ call.auth # <<>>
    /\ Apply(call.auth[1], requests[call.req]).err # <<>>

\* C15: when an authenticator is present and its Apply fails, the executor has
\* returned an error with RequestBuildError() true, the other facets false and
\* status code 0, whose cause chain is a message wrapped around the
\* authenticator's error, and no network call has been made.
C15_AuthFailure ==
    AuthenticatorFailed
    => /\ pc = "returned"
       /\ Len(ret) = 1
       /\ IsRequestError(ret[1])
       /\ ret[1].isRequestBuildErr
       /\ ~ret[1].isTimeout /\ ~ret[1].isConnectionErr /\ ~ret[1].isResponseParseErr
       /\ ret[1].statusCode = 0
       /\ Len(ret[1].err) > 1
       /\ Tail(ret[1].err) = Apply(call.auth[1], requests[call.req]).err[1]
       /\ obs.sends = 0
       /\ obs.network = ""
       /\ resp = <<>>

\* The executor has returned after a failed authenticator.
C15_Witness ==
    /\ AuthenticatorFailed
    /\ pc = "returned"
    /\ obs.authCalls = 1
    /\ ret # <<>>
    /\ ret[1].isRequestBuildErr

----------------------------------------------------------------------------
(* Properties of the time bound of a call, checked under SpecTimeout *)

\* The network call of the executor has been made.
CallMade == call.clientTimeout # <<>> /\ obs.sends > 0

C17_TimeBound ==
    (CallMade /\ call.variant = "do")
    => timeBound(call.ctxTimeout, call.clientTimeout) =
          IF call.timeout > 0 /\ call.timeout < NewHttpClient(call.hcTimeout)
          THEN <<call.timeout>>
          ELSE <<NewHttpClient(call.hcTimeout)>>

\* A call whose own timeout is larger than the default has been made on a
\* client created without a timeout: the context carries the call's timeout,
\* the bound is the default.
C17_Witness ==
    /\ CallMade
    /\ call.variant = "do"
    /\ call.hcTimeout <= 0
    /\ call.timeout > defaultTimeoutDuration
    /\ call.ctxTimeout = <<call.timeout>>
    /\ timeBound(call.ctxTimeout, call.clientTimeout) = <<defaultTimeoutDuration>>

----------------------------------------------------------------------------
(* Properties of the decoding of the response, checked under Spec *)

\* The builder pipeline's executor has received a response with a status below
\* 400, had a response reference, and decoding the body into it has failed.
DecodeHasFailed ==
    /\ call.variant = "doRequest"
    /\ pc \in {"close", "returned"}
    /\ obs.outcome = "DecodeFailed"
    /\ resp # <<>>
    /\ resp[1].StatusCode < 400
    /\ call.respRef # <<>>

\* C18 as stated: the error returned after a failed decode has
\* ResponseParseError() true and the other three facets false, its top-level
\* error is the one of response bodies and not the one of requests, and its
\* cause chain is a message wrapped around the decode failure.
C18_DecodeFailure ==
    DecodeHasFailed
    => /\ Len(ret) = 1
       /\ IsRequestError(ret[1])
       /\ ret[1].isResponseParseErr
       /\ ~ret[1].isTimeout /\ ~ret[1].isConnectionErr /\ ~ret[1].isRequestBuildErr
       /\ ret[1].topLevelErr = "InvalidResponseBodyErr"
       /\ ret[1].topLevelErr # "InvalidRequestErr"
       /\ Len(ret[1].err) > 1
       /\ \E readOk \in BOOLEAN :
             <<Tail(ret[1].err)>> = unmarshalResponseBody(resp[1], call.respRef[1], readOk).err

\* The executor has decoded a response into a response reference that is a
\* []byte, and the decode reported success.
BytesDecoded ==
    /\ pc \in {"close", "returned"}
    /\ obs.decoded
    /\ obs.outcome = "Success"
    /\ call.respRef = <<[kind |-> "bytes"]>>

\* C19 as stated: after a successful decode into a []byte response reference
\* the caller's bytes are exactly the body of the response.
C19_BytesTarget ==
    BytesDecoded => target.bytes = resp[1].Body

----------------------------------------------------------------------------
(* Properties of the request body, checked under SpecBuild *)

\* A build has succeeded on a builder whose last body-setting call was a
\* BodyJson with a payload that cannot be marshalled.
BuiltAfterMarshalFailure ==
    /\ pc = "built"
    /\ built.err = <<>>
    /\ obs.marshalFailed

\* C20 as stated: after a BodyJson whose payload cannot be marshalled the
\* request is built with no body, as if no body had been supplied: a new
\* request has none, and a request of the caller's has the body it came with.
C20_NoBodyAfterMarshalFailure ==
    BuiltAfterMarshalFailure
    => BuiltRequest.Body = IF obs.requestBefore = <<>> THEN <<>>
                           ELSE obs.requestBefore[1].Body

----------------------------------------------------------------------------
(* Properties of builders that are reused, checked under SpecRebuild *)

\* The caller has built a second time with the builder it went on with.
BuiltTwice == pc = "built" /\ obs.earlier # <<>>

\* What the builder now held would build from scratch, that is with the
\* caller's request as it was before any Build.
FromScratch(order) ==
    BuildResult(hrb,
                IF hrb.hr.request = <<>> THEN <<>>
                ELSE IF obs.earlier[1].before # <<>> THEN obs.earlier[1].before
                ELSE obs.requestBefore,
                order)

\* C21 as stated: a second Build does not change the request of the descriptor
\* built first, and yields the error and the request that a builder configured
\* from scratch yields.
C21_BuildsIndependent ==
    BuiltTwice
    => /\ (obs.earlier[1].hr # <<>> /\ obs.earlier[1].request # <<>>)
             => requests[obs.earlier[1].hr[1].request[1]] = obs.earlier[1].request[1]
       /\ \E order \in Orders(HeaderKeys(hrb)) :
             /\ built.err = FromScratch(order).err
             /\ built.hr # <<>> =>
                   BuiltRequest =
                      FromScratch(order).requests[FromScratch(order).hr[1].request[1]]

----------------------------------------------------------------------------
(* Properties of a descriptor that is executed, checked under SpecRerun *)

\* A descriptor has been built; its request as it is now.
DescriptorBuilt == pc # "configure" /\ built.hr # <<>>

\* C22 as stated: the request of a built descriptor stays as Build returned it,
\* whatever is executed.
C22_RequestImmutable ==
    DescriptorBuilt => BuiltRequest = obs.builtAt[1]

\* The header keys the executor and the authenticator write.
ExecutorKeys == {Accept, ContentType, Authorization}

\* C22, amended: executing a descriptor leaves the URL, the body and the close
\* flag of its request as Build returned them, and every header key but
\* Accept, Content-Type and Authorization; it sets the method of the request
\* to the verb of the call, and adds header values under those three keys only.
C22_ExecutorWrites ==
    DescriptorBuilt
    => /\ BuiltRequest.URL = obs.builtAt[1].URL
       /\ BuiltRequest.Body = obs.builtAt[1].Body
       /\ BuiltRequest.Close = obs.builtAt[1].Close
       /\ DOMAIN BuiltRequest.Header \subseteq DOMAIN obs.builtAt[1].Header \cup ExecutorKeys
       /\ \A k \in DOMAIN obs.builtAt[1].Header \ ExecutorKeys :
             /\ k \in DOMAIN BuiltRequest.Header
             /\ BuiltRequest.Header[k] = obs.builtAt[1].Header[k]
       /\ (call.variant = "doRequest" /\ pc # "headers")
             => BuiltRequest.Method = call.method
       /\ (~obs.again /\ pc \in {"built", "headers"})
             => BuiltRequest = obs.builtAt[1]

\* A descriptor built with a header of the caller's has been executed twice,
\* last with POST: its request has the method POST and a Content-Type that
\* Build did not give it.
C22_Witness ==
    /\ DescriptorBuilt
    /\ obs.again
    /\ pc = "returned"
    /\ obs.builtAt[1].Method = "GET"
    /\ BuiltRequest.Method = "POST"
    /\ XA \in DOMAIN obs.builtAt[1].Header
    /\ ContentType \in DOMAIN BuiltRequest.Header
    /\ ContentType \notin DOMAIN obs.builtAt[1].Header

----------------------------------------------------------------------------
(* Properties of buildEndpoint, checked under SpecEndpoint *)

\* The builder holds a scheme and a host, as Build requires of it.
ValidFields == validateRequiredRequestFields(hrb.ri) = <<>>

\* The URL buildEndpoint makes of the builder's fields, parsed.
EndpointParsed == Parse(buildEndpoint(hrb.ri.scheme, hrb.ri.host, hrb.ri.pathElements))

\* The fields read back from a parsed URL as RawUrl reads them: the path is
\* split on "/".
ReadBack(parsedUrl) ==
    [ok |-> parsedUrl.ok,
     scheme |-> rawUrlFields(parsedUrl).scheme,
     host |-> rawUrlFields(parsedUrl).host,
     pathElements |-> rawUrlFields(parsedUrl).pathElements]

\* The segments, each split on "/".
RECURSIVE SplitAll(_)
SplitAll(pathElements) ==
    IF Len(pathElements) = 0 THEN <<>>
    ELSE Split(pathElements[1], 47) \o SplitAll(Tail(pathElements))

\* C23 as stated: for a valid scheme and host and any path segments, the
\* output of buildEndpoint parses back to the same scheme, host and segments.
C23_RoundTripExact ==
    ValidFields
    => ReadBack(EndpointParsed) =
          [ok |-> TRUE, scheme |-> hrb.ri.scheme, host |-> hrb.ri.host,
           pathElements |-> hrb.ri.pathElements]

\* C23, amended: for a valid scheme and host and any path segments, the
\* output of buildEndpoint parses, and reading it back gives the scheme in
\* lower case, the same host, and the segments each split at its slashes; so
\* segments with "%", "?" or spaces come back as they were, and a segment with
\* a "/" comes back as several segments.
C23_RoundTrip ==
    ValidFields
    => ReadBack(EndpointParsed) =
          [ok |-> TRUE, scheme |-> ToLower(hrb.ri.scheme), host |-> hrb.ri.host,
           pathElements |-> SplitAll(hrb.ri.pathElements)]

\* The builder holds a segment with a slash and one with a percent sign; read
\* back, the first is two segments and the second is as it was.
C23_Witness ==
    /\ ValidFields
    /\ hrb.ri.pathElements = <<Str(<<"a","/","b">>), Str(<<"%">>)>>
    /\ ReadBack(EndpointParsed).ok
    /\ ReadBack(EndpointParsed).pathElements = <<Str(<<"a">>), Str(<<"b">>), Str(<<"%">>)>>

(* Properties of the raw URL of components, checked under SpecRawUrl *)

\* The four fields of the builder are what RawUrl made of the URL of the
\* components that were set one by one.
SetByRawUrl ==
    /\ obs.fields.scheme # <<>>
    /\ obs.fields.host # <<>>
    /\ obs.raw # <<>>
    /\ obs.raw[1] = rawUrlFields(Parse(EndpointUrl(obs.fields)))
    /\ WithFields(hrb, obs.raw[1]) = hrb

\* C24 as stated: the raw URL of components gives the builder the scheme,
\* host, path elements and query mapping that setting them one by one gives
\* it, and the two builds yield the same outcome.
C24_RawUrlSameFields ==
    SetByRawUrl
    => /\ obs.raw[1] = obs.fields
       /\ pc = "built" => BuiltOutcome = BuildOutcome(WithFields(hrb, obs.fields), <<>>)

\* C24, amended: the raw URL of components gives the builder the same host,
\* the scheme in lower case, the path elements each split at its slashes, and
\* the same query mapping, an empty one when none was set; the build from the
\* raw URL and the build from the components fail alike or yield requests with
\* equal scheme, host, path and query string.
C24_RawUrlEquivalent ==
    SetByRawUrl
    => /\ obs.raw[1].scheme = ToLower(obs.fields.scheme)
       /\ obs.raw[1].host = obs.fields.host
       /\ obs.raw[1].pathElements = SplitAll(obs.fields.pathElements)
       /\ obs.raw[1].queryParams =
             IF obs.fields.queryParams = <<>> THEN <<EmptyHeader>> ELSE obs.fields.queryParams
       /\ pc = "built" => BuiltOutcome = BuildOutcome(WithFields(hrb, obs.fields), <<>>)

\* A build from the raw URL of components with a slash in a segment and no
\* query mapping has succeeded: the builder holds two segments and an empty mapping.
C24_Witness ==
    /\ SetByRawUrl
    /\ pc = "built"
    /\ built.err = <<>>
    /\ obs.fields.pathElements = <<Str(<<"a","/","b">>)>>
    /\ obs.fields.queryParams = <<>>
    /\ hrb.ri.pathElements = <<Str(<<"a">>), Str(<<"b">>)>>
    /\ hrb.ri.queryParams = <<EmptyHeader>>
    /\ BuiltRequest.URL.Path = Str(<<"/","a","/","b">>)

----------------------------------------------------------------------------
(* Properties of the course of an exchange, checked under Spec *)

\* An invocation of the builder pipeline's executor has returned.
Returned == pc = "returned" /\ call.variant = "doRequest"

\* The ways an invocation can have ended, told from what it returned and from
\* the response it obtained.
AuthFailed ==
    /\ obs.sends = 0 /\ resp = <<>>
    /\ ret # <<>> /\ ret[1].isRequestBuildErr

TransportFailed ==
    /\ obs.sends = 1 /\ resp = <<>>
    /\ ret # <<>> /\ ret[1].isConnectionErr

StatusError ==
    /\ obs.sends = 1 /\ resp # <<>> /\ resp[1].StatusCode >= 400
    /\ ret # <<>> /\ ~obs.decoded

DecodeFailed ==
    /\ obs.sends = 1 /\ resp # <<>> /\ resp[1].StatusCode < 400
    /\ ret # <<>> /\ ret[1].isResponseParseErr /\ obs.decoded

Success ==
    /\ obs.sends = 1 /\ resp # <<>> /\ resp[1].StatusCode < 400
    /\ ret = <<>> /\ (obs.decoded <=> call.respRef # <<>>)

\* The number of the predicates ps that hold.
HowMany(ps) == Cardinality({i \in DOMAIN ps : ps[i]})

\* The steps of one invocation in their order.
ExecutorSteps ==
    {<<"built", "headers">>, <<"headers", "auth">>, <<"auth", "send">>,
     <<"auth", "returned">>, <<"send", "received">>, <<"send", "returned">>,
     <<"received", "decode">>, <<"received", "close">>, <<"decode", "close">>,
     <<"close", "returned">>}

\* C25 as stated: an invocation that has returned has ended in exactly one of
\* TransportFailed, StatusError, DecodeFailed and Success.
C25_FourTerminals ==
    Returned => HowMany(<<TransportFailed, StatusError, DecodeFailed, Success>>) = 1

\* C25, amended: an invocation goes from the header step to the
\* authenticator, the send, the classification, the decoding and the close in
\* this order, makes at most one network call, and when it has returned it has
\* ended in exactly one of AuthFailed (without a network call),
\* TransportFailed, StatusError, DecodeFailed and Success.
C25_FiveTerminals ==
    /\ [](call.variant = "doRequest" => obs.sends <= 1)
    /\ [](Returned =>
            HowMany(<<AuthFailed, TransportFailed, StatusError, DecodeFailed, Success>>) = 1)
    /\ [][(call'.variant = "doRequest" /\ pc' # pc) => <<pc, pc'>> \in ExecutorSteps]_vars

\* An invocation has ended because its authenticator failed, without a
\* network call.
C25_Witness ==
    /\ Returned
    /\ AuthFailed
    /\ call.auth # <<>>
    /\ obs.authCalls = 1
    /\ obs.outcome = "AuthFailed"

----------------------------------------------------------------------------
(* Properties of the close of the response body, checked under Spec *)

\* The call has classified the response and, where it decodes, decoded it.
Finished ==
    /\ obs.outcome \in {"StatusError", "DecodeFailed", "Success"}
    /\ (obs.outcome = "StatusError") = (resp[1].StatusCode >= 400)
    /\ (obs.outcome # "StatusError" /\ call.respRef # <<>>) => obs.decoded

\* C26: the body of an obtained response is closed exactly once, whatever the
\* outcome, the close is the last step of the call, after the classification
\* and the decoding, and a call that obtained no response closes nothing.
C26_ClosedOnce ==
    /\ [](obs.closes <= 1)
    /\ [](pc = "returned" => (obs.closes = 1 <=> resp # <<>>))
    /\ [](resp = <<>> => obs.closes = 0)
    /\ [][obs'.closes # obs.closes =>
            /\ resp # <<>> /\ Finished
            /\ pc' = "returned"
            /\ UNCHANGED <<resp, ret, target, obs.outcome, obs.decoded>>]_vars

\* The body of a response that could not be decoded has been closed.
C26_Witness ==
    /\ pc = "returned"
    /\ obs.outcome = "DecodeFailed"
    /\ resp # <<>>
    /\ obs.closes = 1

\* The close of the response body fails in this step: the deferred function
\* writes the local err only then.
CloseFails == pc = "close" /\ localErr' # localErr

\* C27: when the close of the response body fails and the call has produced
\* no other error, the call returns an error; when it has produced one, that
\* error is the one returned.
C27_CloseFailureReturned ==
    [][CloseFails => IF ret = <<>> THEN ret' # <<>> ELSE ret' = ret]_vars

\* What the executors keep of it: an error produced before the close is the
\* one returned.
EarlierErrorKept ==
    [][(CloseFails /\ ret # <<>>) => ret' = ret]_vars

----------------------------------------------------------------------------
(* Properties of the place of the authenticator in a call, checked under Spec *)

\* The executor has gone past its authentication step.
PastAuthStep ==
    /\ pc \in {"send", "received", "decode", "close", "returned"}
    /\ obs.outcome # "NewRequestFailed"

\* The header step has been done on the request of the call: the method is the
\* call's and setting the universal headers again changes nothing.
HeadersSet ==
    /\ requests[call.req].Method = call.method
    /\ requests[call.req] = setUniversalHeaders(requests[call.req], call.method)

\* C28: the authenticator is applied once in a call that has one and never in
\* a call that has none, and it is applied after the method and the universal
\* headers are set and before the network call.
C28_AuthenticatorOnce ==
    /\ [](obs.authCalls = IF PastAuthStep /\ call.auth # <<>> THEN 1 ELSE 0)
    /\ [][obs'.authCalls # obs.authCalls => (HeadersSet /\ obs.sends = 0)]_vars
    /\ [][obs'.sends # obs.sends => PastAuthStep']_vars

\* A call with an authenticator has applied it once and has made its network
\* call.
C28_Witness ==
    /\ pc = "returned"
    /\ call.auth # <<>>
    /\ obs.authCalls = 1
    /\ obs.sends = 1
    /\ HeaderValues(requests[call.req].Header, Authorization) # <<>>

----------------------------------------------------------------------------
(* Properties of a raw URL that cannot be parsed, checked under SpecOrigin *)

\* This step is a RawUrl call with a string that url.Parse refuses, the first
\* such call on this builder.
RawUrlRefused == ~obs.unparsed /\ obs'.unparsed

\* The fields of the builder b that a raw URL fills.
RawUrlFieldsOf(b) ==
    [scheme |-> b.ri.scheme, host |-> b.ri.host, pathElements |-> b.ri.pathElements,
     queryParams |-> b.ri.queryParams]

\* C29: after a RawUrl call with a string that cannot be parsed, scheme, host,
\* path elements and query parameters of the returned builder are empty,
\* whatever was set before, and a Build of it without a request of the
\* caller's fails.
C29_UnparseableRawUrlEmpties ==
    [][RawUrlRefused =>
          /\ RawUrlFieldsOf(hrb') = NoFields
          /\ hrb'.hr.request = <<>> => BuildOutcome(hrb', requests').failed]_vars

\* What RawUrl does with such a string: the returned builder is the one it was
\* called on.
UnparseableRawUrlKeeps ==
    [][RawUrlRefused => (hrb' = hrb /\ requests' = requests)]_vars

\* On a builder whose fields no earlier call has set, the fields are empty
\* after the call and the Build fails.
UnparseableRawUrlOnFresh ==
    [][(RawUrlRefused /\ obs.fields = NoFields /\ obs.raw = <<>>) =>
          /\ RawUrlFieldsOf(hrb') = NoFields
          /\ hrb'.hr.request = <<>> => BuildOutcome(hrb', requests').failed]_vars

----------------------------------------------------------------------------
(* Properties of two exchanges at once, checked under SpecPair *)

\* doRequest run alone on the request req: what it returns, the request and
\* the response target it leaves, when the network call yields o and reading
\* the response body succeeds or not.
doRequestAlone(req, method, auth, respRef, o, readOk) ==
    LET r1 == setUniversalHeaders(req, method)
        a == IF auth = <<>> THEN [err |-> <<>>, req |-> r1] ELSE Apply(auth[1], r1)
        response == [StatusCode |-> o.StatusCode, Body |-> o.Body]
    IN IF a.err # <<>>
       THEN [ret |-> <<authFailure("doRequest", a.err[1])>>, request |-> a.req,
             target |-> ZeroTarget]
       ELSE IF o.kind # "response"
       THEN [ret |-> <<transportFailure("doRequest", o.kind = "timeout")>>, request |-> a.req,
             target |-> ZeroTarget]
       ELSE IF classify("doRequest", response, readOk) # <<>>
       THEN [ret |-> classify("doRequest", response, readOk), request |-> a.req,
             target |-> ZeroTarget]
       ELSE IF respRef = <<>>
       THEN [ret |-> <<>>, request |-> a.req, target |-> ZeroTarget]
       ELSE LET u == unmarshalResponseBody(response, respRef[1], readOk)
            IN [ret |-> IF u.err # <<>> THEN <<decodeFailure("doRequest", u.err[1])>> ELSE <<>>,
                request |-> a.req,
                target |-> IF u.writes THEN u.val[1] @@ ZeroTarget ELSE ZeroTarget]

\* What the network call of the running exchange yielded.
NetworkGave ==
    {o \in PairOutcomes :
        obs.network # "" =>
           /\ o.kind = obs.network
           /\ o.kind = "response" => resp = <<[StatusCode |-> o.StatusCode, Body |-> o.Body]>>}

\* The request of the exchange that is not running.
ParkedRequest == obs.parked[1].call.req

\* Both exchanges are under way, each on a request of its own.
Concurrent ==
    /\ obs.parked # <<>>
    /\ call.variant = "doRequest"
    /\ obs.parked[1].call.variant = "doRequest"

\* C30: of two exchanges on separately built descriptors that run at once, no
\* step of one writes the request of the other, and under every interleaving
\* each returns what it returns alone for the answer its network call got, and
\* leaves its request and its response target as it leaves them alone.
C30_Independent ==
    /\ []((obs.parked # <<>> /\ pc = "returned") =>
            [ret |-> ret, request |-> requests[call.req], target |-> target]
               \in {doRequestAlone(obs.builtAt[1], call.method, call.auth, call.respRef, o, readOk) :
                       o \in NetworkGave, readOk \in BOOLEAN})
    /\ [][(Concurrent /\ obs'.parked = obs.parked) =>
             requests'[ParkedRequest] = requests[ParkedRequest]]_vars

\* Both exchanges have returned, a GET that succeeded and a POST that was
\* answered 404, each on its own request.
C30_Witness ==
    /\ Concurrent
    /\ pc = "returned"
    /\ obs.parked[1].pc = "returned"
    /\ call.req # ParkedRequest
    /\ call.method = "GET" /\ obs.outcome = "Success"
    /\ obs.parked[1].call.method = "POST" /\ obs.parked[1].obs.outcome = "StatusError"
    /\ requests[call.req].Method = "GET"
    /\ requests[ParkedRequest].Method = "POST"

====
